---- MODULE Spec2Model ----
(***************************************************************************)
(* mcpp::unique_any (small-buffer / heap variant),                         *)
(* mcpp::inplace_unique_any<SIZE, ALIGN> (in-place variant) and the        *)
(* interface / model<T> unique_any of include/mcpp: storage, handler /     *)
(* vtable dispatch, ownership transfer and the any_cast layer; two threads *)
(* sharing containers with or without a mutex, and value types whose       *)
(* allocation or constructor throws.                                       *)
(***************************************************************************)
EXTENDS Integers, FiniteSets, Sequences

\* ------------------------------------------------------------------ bounds
NumAny == 2
MaxVal == 2

\* ------------------------------------------------------- types and values
sizeof_void_p == 8
small_buffer_size == 3 * sizeof_void_p
small_buffer_alignment == sizeof_void_p
SIZE == 4 * sizeof_void_p
ALIGN == sizeof_void_p

\* the value types the tests store: struct small, std::unique_ptr<std::string>,
\* struct large
Types == {"small", "unique_ptr", "large"}
\* typeid(void) is the tag of the empty container
Tags == Types \cup {"void"}

\* further value types: std::atomic<int> (immovable), std::max_align_t (as
\* large as the in-place buffer, but over-aligned for it) and a struct of five
\* pointers (too large for it)
MoreTypes == {"atomic", "max_align_t", "huge"}
AllTypes == Types \cup MoreTypes

sizeof(T) ==
    CASE T = "small" -> 3 * sizeof_void_p
      [] T = "unique_ptr" -> sizeof_void_p
      [] T = "large" -> 4 * sizeof_void_p
      [] T = "atomic" -> sizeof_void_p \div 2
      [] T = "max_align_t" -> 4 * sizeof_void_p
      [] T = "huge" -> 5 * sizeof_void_p

alignof(T) ==
    CASE T = "atomic" -> sizeof_void_p \div 2
      [] T = "max_align_t" -> 2 * sizeof_void_p
      [] OTHER -> sizeof_void_p

is_move_constructible_v(T) == T # "atomic"

is_nothrow_move_constructible_v(T) ==
    T \in {"small", "unique_ptr", "large", "max_align_t", "huge"}

\* mutant: a value as large as the buffer is taken not to fit
is_small_object_v_strict(T) ==
    /\ sizeof(T) < small_buffer_size
    /\ small_buffer_alignment % alignof(T) = 0
    /\ is_nothrow_move_constructible_v(T)

is_small_object_v(T) ==
    /\ sizeof(T) <= small_buffer_size
    /\ small_buffer_alignment % alignof(T) = 0
    /\ is_nothrow_move_constructible_v(T)

\* the values a caller constructs; 0 is the null std::unique_ptr
Val == 1..MaxVal

\* what T's move constructor leaves in the object it moved from
moved_from(T, v) == IF T = "unique_ptr" THEN 0 ELSE v

\* ---------------------------------------------------------------- storage
\* storage holding no object (raw bytes), and a live object of type T
NoObj == [T |-> "none", v |-> 0]
Obj(T, v) == [T |-> T, v |-> v]
IsLive(o) == o.T # "none"

nullptr == 0
Containers == 1..NumAny
\* swap's local `tmp` / `temp_buffer`, and the temporary of operator=
tmp == 0
rhs_tmp == -1
Slots == Containers \cup {tmp, rhs_tmp}
Addr == 1..(NumAny + 1)

\* union storage { void *ptr; small_buffer buf; }: m is the member last written
PtrStorage(p) == [m |-> "ptr", ptr |-> p, buf |-> NoObj]
BufStorage(o) == [m |-> "buf", ptr |-> nullptr, buf |-> o]

FreeCell == [alloc |-> FALSE, obj |-> NoObj]

NullH == "nullptr"

VARIABLES
    variant,    \* which class the containers are instances of
    alive,      \* alive[c]: the container object c is within its lifetime
    h_,         \* unique_any::h_
    s_,         \* unique_any::s_
    heap,       \* storage obtained from std::allocator
    n_allocs,   \* operator new / operator delete counter
    vtable_,    \* inplace_unique_any::vtable_
    buffer_,    \* inplace_unique_any::buffer_ (and swap's temp_buffer)
    fault,      \* first lifetime violation (undefined behaviour), "" if none
    ret,        \* the last operation, what it returned and the steps it took
    state_,     \* unique_any::state_ of the interface / model implementation
    types,      \* the value types the client program stores
    pc,         \* pc[t]: the call thread t makes, where it is in it, what it read
    mutex,      \* the thread holding the caller's lock, "free" if none
    locking     \* whether the callers take the lock around their calls

vars == <<variant, alive, h_, s_, heap, n_allocs, vtable_, buffer_, fault, ret,
          state_, types, pc, mutex, locking>>

\* the program state as one record, threaded through the calls of a handler
\* log collects the constructor, destructor and pointer steps of one call
World ==
    [alive |-> alive, h_ |-> h_, s_ |-> s_, heap |-> heap, n_allocs |-> n_allocs,
     vtable_ |-> vtable_, buffer_ |-> buffer_, fault |-> fault,
     state_ |-> state_, log |-> <<>>]

\* one step of a call: what was done (e), through the handler / vtable of which
\* type (T), on the storage of which container (at), coming from which (src),
\* and the type of the object it acted on (obj)
Ev(e, T, at, src, obj) == [e |-> e, T |-> T, at |-> at, src |-> src, obj |-> obj]
Log(w, ev) == [w EXCEPT !.log = Append(@, ev)]

Fault(w, cond, what) ==
    IF cond /\ w.fault = "" THEN [w EXCEPT !.fault = what] ELSE w

\* ---------------------------------------------------- detail::small_buffer_handler
\* mutant: the handler is not bound after the object is constructed
small_buffer_handler_create_no_bind(w, dest, T, v) ==
    [w EXCEPT !.s_[dest] = BufStorage(Obj(T, v))]

small_buffer_handler_create(w, dest, T, v) ==
    LET w1 == Fault(w, w.s_[dest].m = "buf" /\ IsLive(w.s_[dest].buf),
                    "construct over a live object")
        w2 == Log(w1, Ev("construct", T, dest, dest, T))
    IN [w2 EXCEPT !.s_[dest] = BufStorage(Obj(T, v)), !.h_[dest] = T]

small_buffer_handler_destroy(w, self, T) ==
    LET w1 == Fault(w, w.s_[self].m # "buf" \/ w.s_[self].buf.T # T,
                    "destroy of storage holding no such object")
        w2 == Log(w1, Ev("destroy", T, self, self, w.s_[self].buf.T))
    IN [w2 EXCEPT !.s_[self] = BufStorage(NoObj), !.h_[self] = NullH]

\* mutant: the moved-from object in the source buffer is never destroyed
small_buffer_handler_move_no_destroy(w, self, dest, T) ==
    LET v  == w.s_[self].buf.v
        w2 == [w EXCEPT !.s_[self].buf.v = moved_from(T, v)]
        w3 == small_buffer_handler_create(w2, dest, T, v)
    IN [w3 EXCEPT !.h_[self] = NullH]

small_buffer_handler_move(w, self, dest, T) ==
    LET w1 == Fault(w, w.s_[self].m # "buf" \/ w.s_[self].buf.T # T,
                    "move from storage holding no such object")
        v  == w1.s_[self].buf.v
        w2 == [w1 EXCEPT !.s_[self].buf.v = moved_from(T, v)]
        w3 == small_buffer_handler_create(w2, dest, T, v)
    IN small_buffer_handler_destroy(w3, self, T)

\* ---------------------------------------------------- detail::default_handler
\* allocator_traits::allocate -> operator new
allocate(w) == CHOOSE a \in Addr : ~w.heap[a].alloc /\ \A b \in 1..(a - 1) : w.heap[b].alloc

default_handler_create(w, dest, T, v) ==
    LET a == allocate(w)
    IN [Log(w, Ev("new", T, dest, dest, T))
          EXCEPT !.heap[a] = [alloc |-> TRUE, obj |-> Obj(T, v)],
                 !.n_allocs = @ + 1,
                 !.s_[dest] = PtrStorage(a),
                 !.h_[dest] = T]

default_handler_destroy(w, self, T) ==
    LET p  == w.s_[self].ptr
        ok == w.s_[self].m = "ptr" /\ p \in Addr
        w0 == Fault(w, ~ok \/ ~w.heap[p].alloc \/ w.heap[p].obj.T # T,
                    "destroy through a pointer to no such object")
        w1 == Log(w0, Ev("delete", T, self, self, IF ok THEN w.heap[p].obj.T ELSE "none"))
    IN IF ok
       THEN [w1 EXCEPT !.heap[p] = FreeCell,
                       !.n_allocs = IF w.heap[p].alloc THEN @ - 1 ELSE @,
                       !.h_[self] = NullH]
       ELSE [w1 EXCEPT !.h_[self] = NullH]

\* mutant: the source keeps its handler after handing over the pointer
default_handler_move_keep_handler(w, self, dest, T) ==
    [w EXCEPT !.s_[dest] = PtrStorage(w.s_[self].ptr), !.h_[dest] = T]

\* mutant: the object is rebuilt in a new allocation and the old one deleted
default_handler_move_realloc(w, self, dest, T) ==
    LET v  == w.heap[w.s_[self].ptr].obj.v
        w1 == default_handler_create(w, dest, T, v)
    IN default_handler_destroy(w1, self, T)

default_handler_move(w, self, dest, T) ==
    LET w0 == Fault(w, w.s_[self].m # "ptr", "pointer read from storage holding an inline object")
        w1 == Fault(w0, w.s_[dest].m = "buf" /\ IsLive(w.s_[dest].buf),
                    "pointer written over a live object")
    IN [Log(w1, Ev("pointer", T, dest, self, T))
          EXCEPT !.s_[dest] = PtrStorage(w.s_[self].ptr),
                 !.h_[dest] = T,
                 !.h_[self] = NullH]

\* handler<T>::create, and h_(action, self, other) for the actions destroy and move
handler_create(w, dest, T, v) ==
    IF is_small_object_v(T)
    THEN small_buffer_handler_create(w, dest, T, v)
    ELSE default_handler_create(w, dest, T, v)

call_destroy(w, self) ==
    LET T == w.h_[self]
    IN IF T = NullH THEN Fault(w, TRUE, "call through a null handler")
       ELSE IF is_small_object_v(T) THEN small_buffer_handler_destroy(w, self, T)
       ELSE default_handler_destroy(w, self, T)

call_move(w, self, other) ==
    LET T == w.h_[self]
    IN IF T = NullH THEN Fault(w, TRUE, "call through a null handler")
       ELSE IF is_small_object_v(T) THEN small_buffer_handler_move(w, self, other, T)
       ELSE default_handler_move(w, self, other, T)

\* ------------------------------------------------------------- unique_any
\* unique_any() : h_ = nullptr, storage() : ptr(nullptr)
unique_any_default(w, c) ==
    [w EXCEPT !.alive[c] = TRUE, !.h_[c] = NullH, !.s_[c] = PtrStorage(nullptr)]

\* mutant: the destroy operation is called without the null check
unique_any_reset_unguarded(w, c) == call_destroy(w, c)

unique_any_reset(w, c) ==
    IF w.h_[c] # NullH THEN call_destroy(w, c) ELSE w

\* ~unique_any() { this->reset(); }, after which the members are gone
unique_any_dtor(w, c) ==
    LET w1 == unique_any_reset(w, c)
        w2 == Fault(w1, IsLive(w1.s_[c].buf), "storage released with a live object")
    IN [w2 EXCEPT !.alive[c] = FALSE, !.h_[c] = NullH, !.s_[c] = PtrStorage(nullptr)]

\* mutant: a member-wise copy that leaves the source as it was
unique_any_move_ctor_copy(w, c, other) ==
    [unique_any_default(w, c) EXCEPT !.h_[c] = w.h_[other], !.s_[c] = w.s_[other]]

unique_any_move_ctor(w, c, other) ==
    LET w1 == unique_any_default(w, c)
    IN IF w1.h_[other] # NullH THEN call_move(w1, other, c) ELSE w1

unique_any_value_ctor(w, c, T, v) ==
    handler_create(unique_any_default(w, c), c, T, v)

\* mutant: two non-empty containers are swapped without the relay
unique_any_swap_no_relay(w, self, other) ==
    IF self = other THEN w
    ELSE IF w.h_[self] # NullH /\ w.h_[other] # NullH
    THEN LET w1 == call_move(w, other, self)
         IN call_move(w1, self, other)
    ELSE IF w.h_[self] # NullH THEN call_move(w, self, other)
    ELSE IF w.h_[other] # NullH THEN call_move(w, other, self)
    ELSE w

\* mutant: only the handlers are exchanged, the storage stays where it is
unique_any_swap_handlers_only(w, self, other) ==
    [w EXCEPT !.h_[self] = w.h_[other], !.h_[other] = w.h_[self]]

\* mutant: the relay is filled from this first: this -> tmp, other -> this,
\* tmp -> other
unique_any_swap_this_first(w, self, other) ==
    IF self = other THEN w
    ELSE IF w.h_[self] # NullH /\ w.h_[other] # NullH
    THEN LET w1 == unique_any_default(w, tmp)
             w2 == call_move(w1, self, tmp)
             w3 == call_move(w2, other, self)
             w4 == call_move(w3, tmp, other)
         IN unique_any_dtor(w4, tmp)
    ELSE IF w.h_[self] # NullH THEN call_move(w, self, other)
    ELSE IF w.h_[other] # NullH THEN call_move(w, other, self)
    ELSE w

unique_any_swap(w, self, other) ==
    IF self = other THEN w
    ELSE IF w.h_[self] # NullH /\ w.h_[other] # NullH
    THEN LET w1 == unique_any_default(w, tmp)
             w2 == call_move(w1, other, tmp)
             w3 == call_move(w2, self, other)
             w4 == call_move(w3, tmp, self)
         IN unique_any_dtor(w4, tmp)
    ELSE IF w.h_[self] # NullH THEN call_move(w, self, other)
    ELSE IF w.h_[other] # NullH THEN call_move(w, other, self)
    ELSE w

\* mutant: the destination is reset and the source moved into it, with no
\* temporary and no test for self-assignment
unique_any_move_assign_unchecked(w, self, rhs) ==
    LET w1 == unique_any_reset(w, self)
    IN IF w1.h_[rhs] # NullH THEN call_move(w1, rhs, self) ELSE w1

\* mutant: the destination is reset first and the source moved straight into it
unique_any_move_assign_reset_first(w, self, rhs) ==
    IF self = rhs THEN w
    ELSE LET w1 == unique_any_reset(w, self)
         IN IF w1.h_[rhs] # NullH THEN call_move(w1, rhs, self) ELSE w1

\* unique_any(std::move(rhs)).swap(*this)
unique_any_move_assign(w, self, rhs) ==
    LET w1 == unique_any_move_ctor(w, rhs_tmp, rhs)
        w2 == unique_any_swap(w1, rhs_tmp, self)
    IN unique_any_dtor(w2, rhs_tmp)

\* unique_any(std::forward<ValueType>(rhs)).swap(*this)
unique_any_value_assign(w, self, T, v) ==
    LET w1 == unique_any_value_ctor(w, rhs_tmp, T, v)
        w2 == unique_any_swap(w1, rhs_tmp, self)
    IN unique_any_dtor(w2, rhs_tmp)

unique_any_emplace(w, c, T, v) ==
    handler_create(unique_any_reset(w, c), c, T, v)

unique_any_has_value(w, c) == w.h_[c] # NullH

\* h_(action::typeinfo, nullptr, nullptr) is &typeid(T) of the handler's T
unique_any_type(w, c) ==
    IF unique_any_has_value(w, c) THEN w.h_[c] ELSE "void"

\* ------------------------------------------ detail::inplace_unique_any_vtable
vtable_destroy(w, T, b) ==
    LET w1 == Fault(w, T = NullH, "call through a null vtable")
        w2 == Fault(w1, w.buffer_[b].T # T, "destroy of storage holding no such object")
        w3 == Log(w2, Ev("destroy", T, b, b, w.buffer_[b].T))
    IN [w3 EXCEPT !.buffer_[b] = NoObj]

\* mutant: the destination is built from the object after it was moved from
vtable_move_stale(w, T, dst, src) ==
    [w EXCEPT !.buffer_[src] = Obj(@.T, moved_from(T, @.v)),
              !.buffer_[dst] = Obj(T, moved_from(T, w.buffer_[src].v))]

vtable_move(w, T, dst, src) ==
    LET w1 == Fault(w, T = NullH, "call through a null vtable")
        w2 == Fault(w1, w.buffer_[src].T # T, "move from storage holding no such object")
        w3 == Fault(w2, IsLive(w.buffer_[dst]), "construct over a live object")
        w4 == Log(w3, Ev("move", T, dst, src, w.buffer_[src].T))
        v  == w.buffer_[src].v
    IN [w4 EXCEPT !.buffer_[src] = Obj(@.T, moved_from(T, v)),
                  !.buffer_[dst] = Obj(T, v)]

\* ----------------------------------------------------- inplace_unique_any
inplace_unique_any_default(w, c) ==
    [w EXCEPT !.alive[c] = TRUE, !.vtable_[c] = NullH, !.buffer_[c] = NoObj]

\* mutant: the object is destroyed but the vtable pointer is kept
inplace_unique_any_reset_keep_vtable(w, c) ==
    IF w.vtable_[c] # NullH THEN vtable_destroy(w, w.vtable_[c], c) ELSE w

inplace_unique_any_reset(w, c) ==
    IF w.vtable_[c] # NullH
    THEN [vtable_destroy(w, w.vtable_[c], c) EXCEPT !.vtable_[c] = NullH]
    ELSE w

inplace_unique_any_dtor(w, c) ==
    LET w1 == inplace_unique_any_reset(w, c)
        w2 == Fault(w1, IsLive(w1.buffer_[c]), "storage released with a live object")
    IN [w2 EXCEPT !.alive[c] = FALSE, !.vtable_[c] = NullH, !.buffer_[c] = NoObj]

\* mutant: the source keeps its vtable (a copy instead of std::exchange)
inplace_unique_any_take_no_exchange(w, c, other) ==
    IF w.vtable_[other] # NullH
    THEN LET w1 == vtable_move(w, w.vtable_[other], c, other)
             w2 == [w1 EXCEPT !.vtable_[c] = w1.vtable_[other]]
         IN w2
    ELSE w

\* the body shared by the move constructor and move assignment
inplace_unique_any_take(w, c, other) ==
    IF w.vtable_[other] # NullH
    THEN LET w1 == vtable_move(w, w.vtable_[other], c, other)
             w2 == [w1 EXCEPT !.vtable_[c] = w1.vtable_[other], !.vtable_[other] = NullH]
         IN vtable_destroy(w2, w2.vtable_[c], other)
    ELSE w

inplace_unique_any_move_ctor(w, c, other) ==
    inplace_unique_any_take(inplace_unique_any_default(w, c), c, other)

\* mutant: no test for self-assignment
inplace_unique_any_move_assign_no_self_check(w, self, other) ==
    inplace_unique_any_take(inplace_unique_any_reset(w, self), self, other)

inplace_unique_any_move_assign(w, self, other) ==
    IF self # other
    THEN inplace_unique_any_take(inplace_unique_any_reset(w, self), self, other)
    ELSE w

\* new (buffer_.data()) T(...); vtable_ = &detail::vtable_for<T>()
inplace_unique_any_construct(w, c, T, v) ==
    LET w1 == Fault(w, IsLive(w.buffer_[c]), "construct over a live object")
        w2 == Log(w1, Ev("construct", T, c, c, T))
    IN [w2 EXCEPT !.buffer_[c] = Obj(T, v), !.vtable_[c] = T]

inplace_unique_any_value_ctor(w, c, T, v) ==
    inplace_unique_any_construct(inplace_unique_any_default(w, c), c, T, v)

\* mutant: the new object is constructed without reset() before it
inplace_unique_any_value_assign_no_reset(w, c, T, v) ==
    inplace_unique_any_construct(w, c, T, v)

inplace_unique_any_value_assign(w, c, T, v) ==
    inplace_unique_any_construct(inplace_unique_any_reset(w, c), c, T, v)

inplace_unique_any_emplace(w, c, T, v) ==
    inplace_unique_any_construct(inplace_unique_any_reset(w, c), c, T, v)

inplace_unique_any_has_value(w, c) == w.vtable_[c] # NullH

inplace_unique_any_type(w, c) ==
    IF w.vtable_[c] # NullH THEN w.vtable_[c] ELSE "void"

\* mutant: the two vtable pointers are not exchanged after the three moves
inplace_unique_any_swap_no_exchange(w, self, other) ==
    IF self = other
       \/ (~inplace_unique_any_has_value(w, self) /\ ~inplace_unique_any_has_value(w, other))
    THEN w
    ELSE IF ~inplace_unique_any_has_value(w, self)
    THEN inplace_unique_any_move_assign(w, self, other)
    ELSE IF ~inplace_unique_any_has_value(w, other)
    THEN inplace_unique_any_move_assign(w, other, self)
    ELSE LET w1 == vtable_move(w, w.vtable_[self], tmp, self)
             w2 == vtable_destroy(w1, w1.vtable_[self], self)
             w3 == vtable_move(w2, w2.vtable_[other], self, other)
             w4 == vtable_destroy(w3, w3.vtable_[other], other)
             w5 == vtable_move(w4, w4.vtable_[self], other, tmp)
         IN vtable_destroy(w5, w5.vtable_[self], tmp)

\* mutant: the object in the temporary is moved back and destroyed through the
\* other container's vtable
inplace_unique_any_swap_wrong_table(w, self, other) ==
    IF self = other
       \/ (~inplace_unique_any_has_value(w, self) /\ ~inplace_unique_any_has_value(w, other))
    THEN w
    ELSE IF ~inplace_unique_any_has_value(w, self)
    THEN inplace_unique_any_move_assign(w, self, other)
    ELSE IF ~inplace_unique_any_has_value(w, other)
    THEN inplace_unique_any_move_assign(w, other, self)
    ELSE LET w1 == vtable_move(w, w.vtable_[self], tmp, self)
             w2 == vtable_destroy(w1, w1.vtable_[self], self)
             w3 == vtable_move(w2, w2.vtable_[other], self, other)
             w4 == vtable_destroy(w3, w3.vtable_[other], other)
             w5 == vtable_move(w4, w4.vtable_[other], other, tmp)
             w6 == vtable_destroy(w5, w5.vtable_[other], tmp)
         IN [Log(w6, Ev("exchange", "void", self, other, "none"))
               EXCEPT !.vtable_[self] = w6.vtable_[other],
                      !.vtable_[other] = w6.vtable_[self]]

inplace_unique_any_swap(w, self, other) ==
    IF self = other
       \/ (~inplace_unique_any_has_value(w, self) /\ ~inplace_unique_any_has_value(w, other))
    THEN w
    ELSE IF ~inplace_unique_any_has_value(w, self)
    THEN inplace_unique_any_move_assign(w, self, other)
    ELSE IF ~inplace_unique_any_has_value(w, other)
    THEN inplace_unique_any_move_assign(w, other, self)
    ELSE LET w1 == vtable_move(w, w.vtable_[self], tmp, self)
             w2 == vtable_destroy(w1, w1.vtable_[self], self)
             w3 == vtable_move(w2, w2.vtable_[other], self, other)
             w4 == vtable_destroy(w3, w3.vtable_[other], other)
             w5 == vtable_move(w4, w4.vtable_[self], other, tmp)
             w6 == vtable_destroy(w5, w5.vtable_[self], tmp)
         IN [Log(w6, Ev("exchange", "void", self, other, "none"))
               EXCEPT !.vtable_[self] = w6.vtable_[other],
                      !.vtable_[other] = w6.vtable_[self]]

\* ------------------------------------------- unique_any (interface / model<T>)
\* new model<T>(...) for the state_ of container c
model_new(w, c, T, v) ==
    LET a == allocate(w)
    IN [Log(w, Ev("new", T, c, c, T))
          EXCEPT !.heap[a] = [alloc |-> TRUE, obj |-> Obj(T, v)],
                 !.n_allocs = @ + 1]

\* what std::unique_ptr<interface> does with a pointer it gives up
model_delete(w, c, p) ==
    IF p = nullptr THEN w
    ELSE LET w1 == Fault(w, ~w.heap[p].alloc, "delete of a pointer to no object")
         IN [Log(w1, Ev("delete", w.heap[p].obj.T, c, c, w.heap[p].obj.T))
               EXCEPT !.heap[p] = FreeCell,
                      !.n_allocs = IF w.heap[p].alloc THEN @ - 1 ELSE @]

unique_any_model_default(w, c) ==
    [w EXCEPT !.alive[c] = TRUE, !.state_[c] = nullptr]

\* std::swap(other.state_, state_)
unique_any_model_swap(w, self, other) ==
    [w EXCEPT !.state_[self] = w.state_[other], !.state_[other] = w.state_[self]]

unique_any_model_move_ctor(w, c, other) ==
    unique_any_model_swap(unique_any_model_default(w, c), c, other)

unique_any_model_value_ctor(w, c, T, v) ==
    LET w1 == unique_any_model_default(w, c)
    IN [model_new(w1, c, T, v) EXCEPT !.state_[c] = allocate(w1)]

\* ~unique_any() = default: the std::unique_ptr deletes what it owns
unique_any_model_dtor(w, c) ==
    [model_delete(w, c, w.state_[c]) EXCEPT !.alive[c] = FALSE, !.state_[c] = nullptr]

unique_any_model_move_assign(w, self, rhs) ==
    LET w1 == unique_any_model_move_ctor(w, rhs_tmp, rhs)
        w2 == unique_any_model_swap(w1, rhs_tmp, self)
    IN unique_any_model_dtor(w2, rhs_tmp)

unique_any_model_value_assign(w, self, T, v) ==
    LET w1 == unique_any_model_value_ctor(w, rhs_tmp, T, v)
        w2 == unique_any_model_swap(w1, rhs_tmp, self)
    IN unique_any_model_dtor(w2, rhs_tmp)

\* state_.reset(p): the new pointer is stored, then the old one is deleted
unique_any_model_emplace(w, c, T, v) ==
    LET w1 == [model_new(w, c, T, v) EXCEPT !.state_[c] = allocate(w)]
    IN model_delete(w1, c, w.state_[c])

unique_any_model_reset(w, c) ==
    model_delete([w EXCEPT !.state_[c] = nullptr], c, w.state_[c])

unique_any_model_has_value(w, c) == w.state_[c] # nullptr

unique_any_model_type(w, c) ==
    IF unique_any_model_has_value(w, c) THEN w.heap[w.state_[c]].obj.T ELSE "void"

\* ------------------------------------------------------------------ any_cast
\* what an operation hands back: nothing, a pointer, a value (with the place it
\* was read from), the bad-cast exception, or a crash
NullPtr == [loc |-> "null", at |-> 0]
BufPtr(c) == [loc |-> "buf", at |-> c]
BufferPtr(c) == [loc |-> "buffer_", at |-> c]
HeapPtr(a) == IF a = nullptr THEN NullPtr ELSE [loc |-> "heap", at |-> a]
WildPtr == [loc |-> "wild", at |-> 0]

Out(k, p, x) == [k |-> k, p |-> p, x |-> x]
NoOut == Out("none", NullPtr, 0)
Thrown == Out("bad_any_cast", NullPtr, 0)
\* the call does not compile: a static_assert or a constraint rejects it
IllFormed == Out("ill_formed", NullPtr, 0)
\* the results of the same call on a unique_any and on an inplace_unique_any
Both(r1, r2) == [k |-> "both", unique_any |-> r1, inplace_unique_any |-> r2]

\* the object a pointer designates
Deref(w, p) ==
    CASE p.loc = "buf" -> w.s_[p.at].buf
      [] p.loc = "buffer_" -> w.buffer_[p.at]
      [] p.loc = "heap" -> w.heap[p.at].obj
      [] OTHER -> NoObj

\* h_(action::get, this, nullptr); a call through a null function pointer is
\* undefined: it may crash or hand back anything
call_get(w, self) ==
    LET T == w.h_[self]
    IN IF T = NullH
       THEN {Out("crash", NullPtr, 0), Out("ptr", NullPtr, 0), Out("ptr", WildPtr, 0)}
       ELSE IF is_small_object_v(T) THEN {Out("ptr", BufPtr(self), 0)}
       ELSE {Out("ptr", HeapPtr(w.s_[self].ptr), 0)}

unique_any_unsafe_cast(w, self) == call_get(w, self)

\* any_cast<T>(unique_any *) and any_cast<T>(const unique_any *)
unique_any_cast_ptr(w, operand, T) ==
    IF operand # nullptr /\ unique_any_type(w, operand) = T
    THEN unique_any_unsafe_cast(w, operand)
    ELSE {Out("ptr", NullPtr, 0)}

\* any_cast<T>(inplace_unique_any *) and any_cast<T>(const inplace_unique_any *)
inplace_unique_any_cast_ptr(w, operand, T) ==
    IF operand # nullptr /\ inplace_unique_any_type(w, operand) = T
    THEN {Out("ptr", BufferPtr(operand), 0)}
    ELSE {Out("ptr", NullPtr, 0)}

\* state_->pointer(): a virtual call through a null state_ is undefined
unique_any_model_unsafe_cast(w, self) ==
    IF w.state_[self] = nullptr
    THEN {Out("crash", NullPtr, 0), Out("ptr", NullPtr, 0), Out("ptr", WildPtr, 0)}
    ELSE {Out("ptr", HeapPtr(w.state_[self]), 0)}

unique_any_model_cast_ptr(w, operand, T) ==
    IF operand # nullptr /\ unique_any_model_type(w, operand) = T
    THEN unique_any_model_unsafe_cast(w, operand)
    ELSE {Out("ptr", NullPtr, 0)}

cast_ptr(w, operand, T) ==
    CASE variant = "unique_any" -> unique_any_cast_ptr(w, operand, T)
      [] variant = "inplace_unique_any" -> inplace_unique_any_cast_ptr(w, operand, T)
      [] variant = "unique_any_model" -> unique_any_model_cast_ptr(w, operand, T)

\* if (auto ptr = any_cast<U>(&operand)) return *ptr; throw bad_any_cast();
deref_or_throw(w, ptrs) ==
    { IF r.k = "ptr" /\ r.p # NullPtr THEN Out("value", r.p, Deref(w, r.p).v)
      ELSE IF r.k = "ptr" THEN Thrown
      ELSE r : r \in ptrs }

\* mutant: a null pointer is dereferenced instead of throwing
cast_ref_no_throw(w, operand, T) ==
    { IF r.k = "ptr" THEN Out("value", r.p, Deref(w, r.p).v) ELSE r :
        r \in cast_ptr(w, operand, T) }

\* any_cast<T>(const any &) and any_cast<T>(any &): *ptr, or throw
cast_ref(w, operand, T) == deref_or_throw(w, cast_ptr(w, operand, T))

\* mutant: the held object is copied, not moved from
move_out_copy(w, p, T) == w

\* any_cast<T>(any &&): T(std::move(*ptr)) leaves *ptr moved from
move_out(w, p, T) ==
    CASE p.loc = "buf" -> [w EXCEPT !.s_[p.at].buf.v = moved_from(T, @)]
      [] p.loc = "buffer_" -> [w EXCEPT !.buffer_[p.at].v = moved_from(T, @)]
      [] p.loc = "heap" -> [w EXCEPT !.heap[p.at].obj.v = moved_from(T, @)]
      [] OTHER -> w

\* ---------------------------------------------- one call, whichever class
\* "lockstep" runs a unique_any and an inplace_unique_any side by side: every
\* call is made on both
default_ctor(w, c) ==
    CASE variant = "unique_any" -> unique_any_default(w, c)
      [] variant = "inplace_unique_any" -> inplace_unique_any_default(w, c)
      [] variant = "unique_any_model" -> unique_any_model_default(w, c)
      [] variant = "lockstep" -> inplace_unique_any_default(unique_any_default(w, c), c)

move_ctor(w, c, other) ==
    CASE variant = "unique_any" -> unique_any_move_ctor(w, c, other)
      [] variant = "inplace_unique_any" -> inplace_unique_any_move_ctor(w, c, other)
      [] variant = "unique_any_model" -> unique_any_model_move_ctor(w, c, other)
      [] variant = "lockstep" ->
            inplace_unique_any_move_ctor(unique_any_move_ctor(w, c, other), c, other)

value_ctor(w, c, T, v) ==
    CASE variant = "unique_any" -> unique_any_value_ctor(w, c, T, v)
      [] variant = "inplace_unique_any" -> inplace_unique_any_value_ctor(w, c, T, v)
      [] variant = "unique_any_model" -> unique_any_model_value_ctor(w, c, T, v)
      [] variant = "lockstep" ->
            inplace_unique_any_value_ctor(unique_any_value_ctor(w, c, T, v), c, T, v)

move_assign(w, self, rhs) ==
    CASE variant = "unique_any" -> unique_any_move_assign(w, self, rhs)
      [] variant = "inplace_unique_any" -> inplace_unique_any_move_assign(w, self, rhs)
      [] variant = "unique_any_model" -> unique_any_model_move_assign(w, self, rhs)
      [] variant = "lockstep" ->
            inplace_unique_any_move_assign(unique_any_move_assign(w, self, rhs), self, rhs)

value_assign(w, self, T, v) ==
    CASE variant = "unique_any" -> unique_any_value_assign(w, self, T, v)
      [] variant = "inplace_unique_any" -> inplace_unique_any_value_assign(w, self, T, v)
      [] variant = "unique_any_model" -> unique_any_model_value_assign(w, self, T, v)
      [] variant = "lockstep" ->
            inplace_unique_any_value_assign(unique_any_value_assign(w, self, T, v), self, T, v)

dtor(w, c) ==
    CASE variant = "unique_any" -> unique_any_dtor(w, c)
      [] variant = "inplace_unique_any" -> inplace_unique_any_dtor(w, c)
      [] variant = "unique_any_model" -> unique_any_model_dtor(w, c)
      [] variant = "lockstep" -> inplace_unique_any_dtor(unique_any_dtor(w, c), c)

emplace(w, c, T, v) ==
    CASE variant = "unique_any" -> unique_any_emplace(w, c, T, v)
      [] variant = "inplace_unique_any" -> inplace_unique_any_emplace(w, c, T, v)
      [] variant = "unique_any_model" -> unique_any_model_emplace(w, c, T, v)
      [] variant = "lockstep" ->
            inplace_unique_any_emplace(unique_any_emplace(w, c, T, v), c, T, v)

reset(w, c) ==
    CASE variant = "unique_any" -> unique_any_reset(w, c)
      [] variant = "inplace_unique_any" -> inplace_unique_any_reset(w, c)
      [] variant = "unique_any_model" -> unique_any_model_reset(w, c)
      [] variant = "lockstep" -> inplace_unique_any_reset(unique_any_reset(w, c), c)

swap(w, self, other) ==
    CASE variant = "unique_any" -> unique_any_swap(w, self, other)
      [] variant = "inplace_unique_any" -> inplace_unique_any_swap(w, self, other)
      [] variant = "unique_any_model" -> unique_any_model_swap(w, self, other)
      [] variant = "lockstep" ->
            inplace_unique_any_swap(unique_any_swap(w, self, other), self, other)

\* return create(...) / return *val: a reference to the object just built
unique_any_emplace_result(w, c, T) ==
    LET p == IF is_small_object_v(T) THEN BufPtr(c) ELSE HeapPtr(w.s_[c].ptr)
    IN {Out("value", p, Deref(w, p).v)}

inplace_unique_any_emplace_result(w, c, T) ==
    {Out("value", BufferPtr(c), Deref(w, BufferPtr(c)).v)}

\* emplace of the interface / model implementation has no return statement:
\* flowing off the end of a function that returns a reference is undefined; the
\* caller gets a crash, a wild reference, or by chance the right object
unique_any_model_emplace_result(w, c, T) ==
    {Out("crash", NullPtr, 0), Out("value", WildPtr, 0),
     Out("value", HeapPtr(w.state_[c]), Deref(w, HeapPtr(w.state_[c])).v)}

emplace_result(w, c, T) ==
    CASE variant = "unique_any" -> unique_any_emplace_result(w, c, T)
      [] variant = "inplace_unique_any" -> inplace_unique_any_emplace_result(w, c, T)
      [] variant = "unique_any_model" -> unique_any_model_emplace_result(w, c, T)
      [] variant = "lockstep" ->
            {Both(r1, r2) : r1 \in unique_any_emplace_result(w, c, T),
                            r2 \in inplace_unique_any_emplace_result(w, c, T)}

ptr_results(w, operand, T) ==
    IF variant = "lockstep"
    THEN {Both(r1, r2) : r1 \in unique_any_cast_ptr(w, operand, T),
                         r2 \in inplace_unique_any_cast_ptr(w, operand, T)}
    ELSE cast_ptr(w, operand, T)

ref_results(w, operand, T) ==
    IF variant = "lockstep"
    THEN {Both(r1, r2) : r1 \in deref_or_throw(w, unique_any_cast_ptr(w, operand, T)),
                         r2 \in deref_or_throw(w, inplace_unique_any_cast_ptr(w, operand, T))}
    ELSE cast_ref(w, operand, T)

\* static_cast<T>(std::move(*ptr)) on the object each successful cast found
moved_out(w, r, T) ==
    IF r.k = "both"
    THEN LET w1 == IF r.unique_any.k = "value" THEN move_out(w, r.unique_any.p, T) ELSE w
         IN IF r.inplace_unique_any.k = "value"
            THEN move_out(w1, r.inplace_unique_any.p, T) ELSE w1
    ELSE IF r.k = "value" THEN move_out(w, r.p, T) ELSE w

\* ---------------------------------------------------- what the compiler accepts
\* the forms that build the T from a T passed by the caller
ForwardingForms == {"ctor_value", "assign_value"}

\* T(std::forward<ValueType>(value)) needs a move constructor; the in-place
\* forms only need T to be constructible from the arguments
unique_any_accepts(form, T) ==
    form \in ForwardingForms => is_move_constructible_v(T)

\* mutant: only the size is checked, not the alignment
inplace_unique_any_accepts_size_only(form, T) ==
    /\ is_nothrow_move_constructible_v(T)
    /\ sizeof(T) <= SIZE

\* requires is_nothrow_move_constructible_v, and the two static_asserts
inplace_unique_any_accepts(form, T) ==
    /\ is_nothrow_move_constructible_v(T)
    /\ sizeof(T) <= SIZE
    /\ alignof(T) <= ALIGN

accepts(form, T) ==
    CASE variant = "unique_any" -> unique_any_accepts(form, T)
      [] variant = "inplace_unique_any" -> inplace_unique_any_accepts(form, T)
      [] variant = "unique_any_model" -> unique_any_accepts(form, T)
      [] variant = "lockstep" ->
            unique_any_accepts(form, T) /\ inplace_unique_any_accepts(form, T)

\* ------------------------------------------------------------------ actions
R(op, self, other, T, v, out) ==
    [op |-> op, self |-> self, other |-> other, T |-> T, v |-> v, out |-> out,
     log |-> <<>>]

NoRet == R("none", 0, 0, "void", 0, NoOut)

Commit(w, r) ==
    /\ alive' = w.alive
    /\ h_' = w.h_
    /\ s_' = w.s_
    /\ heap' = w.heap
    /\ n_allocs' = w.n_allocs
    /\ vtable_' = w.vtable_
    /\ buffer_' = w.buffer_
    /\ fault' = w.fault
    /\ state_' = w.state_
    /\ ret' = [r EXCEPT !.log = w.log]
    /\ UNCHANGED <<variant, types, pc, mutex, locking>>

\* the three constructors and the two emplace overloads that build a T from
\* arguments differ in how the arguments reach T's constructor
CtorForms == {"ctor_value", "ctor_in_place", "ctor_in_place_il"}
EmplaceForms == {"emplace", "emplace_il"}
SwapForms == {"swap", "free_swap"}
PtrCastForms == {"cast_ptr", "cast_const_ptr"}
RefCastForms == {"cast_ref", "cast_const_ref"}

\* requested types: the pointer casts of unique_any accept void, every other
\* cast has a static_assert that rejects it
PtrCastTags ==
    IF variant \in {"unique_any", "unique_any_model"} THEN types \cup {"void"} ELSE types

\* the state the caller's object is left in when it was passed as an rvalue
Forwarded(form, T, v) ==
    IF form \in ForwardingForms THEN Out("arg", NullPtr, moved_from(T, v)) ELSE NoOut

DefaultCtor(c) ==
    /\ ~alive[c]
    /\ Commit(default_ctor(World, c), R("ctor_default", c, 0, "void", 0, NoOut))

MoveCtor(c, other) ==
    /\ ~alive[c] /\ alive[other] /\ c # other
    /\ Commit(move_ctor(World, c, other), R("ctor_move", c, other, "void", 0, NoOut))

ValueCtor(form, c, T, v) ==
    /\ ~alive[c]
    /\ IF accepts(form, T)
       THEN Commit(value_ctor(World, c, T, v), R(form, c, 0, T, v, Forwarded(form, T, v)))
       ELSE Commit(World, R(form, c, 0, T, v, IllFormed))

MoveAssign(self, rhs) ==
    /\ alive[self] /\ alive[rhs]
    /\ Commit(move_assign(World, self, rhs), R("assign_move", self, rhs, "void", 0, NoOut))

ValueAssign(self, T, v) ==
    /\ alive[self]
    /\ IF accepts("assign_value", T)
       THEN Commit(value_assign(World, self, T, v),
                   R("assign_value", self, 0, T, v, Forwarded("assign_value", T, v)))
       ELSE Commit(World, R("assign_value", self, 0, T, v, IllFormed))

Dtor(c) ==
    /\ alive[c]
    /\ Commit(dtor(World, c), R("dtor", c, 0, "void", 0, NoOut))

\* emplace returns a reference to the object it constructed
Emplace(form, c, T, v) ==
    /\ alive[c]
    /\ IF accepts(form, T)
       THEN LET w == emplace(World, c, T, v)
            IN \E r \in emplace_result(w, c, T) : Commit(w, R(form, c, 0, T, v, r))
       ELSE Commit(World, R(form, c, 0, T, v, IllFormed))

Reset(c) ==
    /\ alive[c]
    /\ Commit(reset(World, c), R("reset", c, 0, "void", 0, NoOut))

\* a.swap(b), and swap(a, b) { a.swap(b); }
Swap(form, self, other) ==
    /\ alive[self] /\ alive[other]
    /\ Commit(swap(World, self, other), R(form, self, other, "void", 0, NoOut))

CastPtr(form, operand, T) ==
    /\ operand # nullptr => alive[operand]
    /\ \E r \in ptr_results(World, operand, T) :
          Commit(World, R(form, operand, 0, T, 0, r))

CastRef(form, operand, T) ==
    /\ alive[operand]
    /\ \E r \in ref_results(World, operand, T) :
          Commit(World, R(form, operand, 0, T, 0, r))

\* any_cast<T>(std::move(a)) builds its result with T's move constructor
CastRvalue(operand, T) ==
    /\ alive[operand]
    /\ IF is_move_constructible_v(T)
       THEN \E r \in ref_results(World, operand, T) :
               Commit(moved_out(World, r, T), R("cast_rvalue", operand, 0, T, 0, r))
       ELSE Commit(World, R("cast_rvalue", operand, 0, T, 0, IllFormed))

\* the caller has looked at the result of the call and goes on
Return ==
    /\ ret # NoRet
    /\ ret' = NoRet
    /\ UNCHANGED <<variant, alive, h_, s_, heap, n_allocs, vtable_, buffer_, fault,
                   state_, types, pc, mutex, locking>>

\* the threads of a client that shares a container between two threads
Threads == {"t1", "t2"}
NoCall == [at |-> "idle", op |-> "none", a |-> nullptr, b |-> nullptr, seen |-> NullH]

\* no container constructed yet
Fresh ==
    [alive |-> [c \in Slots |-> FALSE], h_ |-> [c \in Slots |-> NullH],
     s_ |-> [c \in Slots |-> PtrStorage(nullptr)], heap |-> [a \in Addr |-> FreeCell],
     n_allocs |-> 0, vtable_ |-> [c \in Slots |-> NullH],
     buffer_ |-> [c \in Slots |-> NoObj], fault |-> "",
     state_ |-> [c \in Slots |-> nullptr], log |-> <<>>]

\* the program is in state w
Started(w) ==
    /\ alive = w.alive
    /\ h_ = w.h_
    /\ s_ = w.s_
    /\ heap = w.heap
    /\ n_allocs = w.n_allocs
    /\ vtable_ = w.vtable_
    /\ buffer_ = w.buffer_
    /\ fault = w.fault
    /\ state_ = w.state_
    /\ ret = NoRet

\* no container constructed yet; the program uses one of the classes vs with
\* the value types ts, from one thread
Boot(vs, ts) ==
    /\ variant \in vs
    /\ types = ts
    /\ Started(Fresh)
    /\ pc = [t \in Threads |-> NoCall]
    /\ mutex = "free"
    /\ locking = FALSE

Init == Boot({"unique_any", "inplace_unique_any"}, Types)

Idle == ret = NoRet

\* an operation is called when the caller holds no result of an earlier call
Next ==
    \/ Idle /\ \E c \in Containers : DefaultCtor(c)
    \/ Idle /\ \E c, other \in Containers : MoveCtor(c, other)
    \/ Idle /\ \E form \in CtorForms, c \in Containers, T \in types, v \in Val :
                  ValueCtor(form, c, T, v)
    \/ Idle /\ \E self, rhs \in Containers : MoveAssign(self, rhs)
    \/ Idle /\ \E self \in Containers, T \in types, v \in Val : ValueAssign(self, T, v)
    \/ Idle /\ \E c \in Containers : Dtor(c)
    \/ Idle /\ \E form \in EmplaceForms, c \in Containers, T \in types, v \in Val :
                  Emplace(form, c, T, v)
    \/ Idle /\ \E c \in Containers : Reset(c)
    \/ Idle /\ \E form \in SwapForms, self, other \in Containers : Swap(form, self, other)
    \/ Idle /\ \E form \in PtrCastForms, operand \in Containers \cup {nullptr},
                    T \in PtrCastTags : CastPtr(form, operand, T)
    \/ Idle /\ \E form \in RefCastForms, operand \in Containers, T \in types :
                  CastRef(form, operand, T)
    \/ Idle /\ \E operand \in Containers, T \in types : CastRvalue(operand, T)
    \/ Return

Spec == Init /\ [][Next]_vars

\* the in-place class alone, offered every value type
InitInplace == Boot({"inplace_unique_any"}, AllTypes)
SpecInplace == InitInplace /\ [][Next]_vars

\* unique_any alone, with an immovable and a small movable value type
InitImmovable == Boot({"unique_any"}, {"atomic", "small"})
SpecImmovable == InitImmovable /\ [][Next]_vars

\* the interface / model implementation of unique_any
InitModel == Boot({"unique_any_model"}, Types)
SpecModel == InitModel /\ [][Next]_vars

\* unique_any alone, with a value type that is kept inline, one kept behind a
\* pointer because of its size and one because of its move constructor
InitStorageKinds == Boot({"unique_any"}, {"small", "large", "atomic"})
SpecStorageKinds == InitStorageKinds /\ [][Next]_vars

\* a unique_any and an inplace_unique_any run side by side on types that fit
\* the in-place buffer: one that unique_any keeps in its small buffer, one
\* that it keeps on the heap
InitLockstep == Boot({"lockstep"}, {"unique_ptr", "large"})
SpecLockstep == InitLockstep /\ [][Next]_vars

\* ------------------------------------------- two threads on one container
\* Thread t1 calls a.reset(); thread t2 calls a.reset() or b = std::move(a).
\* A step of a thread is a piece of its call between two accesses to a's
\* handler / vtable pointer; the steps of the two threads interleave unless
\* the callers hold their lock from the start of the call to its end.
ThreadOps == {"reset", "assign_move"}

\* the program state with the steps of both threads so far
Shared == [World EXCEPT !.log = ret.log]

\* one step of thread t: the memory is now w, t is at `at` having read `seen`
Step(w, t, at, seen) ==
    /\ alive' = w.alive
    /\ h_' = w.h_
    /\ s_' = w.s_
    /\ heap' = w.heap
    /\ n_allocs' = w.n_allocs
    /\ vtable_' = w.vtable_
    /\ buffer_' = w.buffer_
    /\ fault' = w.fault
    /\ state_' = w.state_
    /\ ret' = [ret EXCEPT !.log = w.log]
    /\ pc' = [pc EXCEPT ![t].at = at, ![t].seen = seen]
    /\ UNCHANGED <<variant, types, locking>>

\* h_ of unique_any, vtable_ of inplace_unique_any
handler_of(w, c) == IF variant = "unique_any" THEN w.h_[c] ELSE w.vtable_[c]

\* the caller takes its lock, if it uses one, and makes the call
Begin(t) ==
    /\ pc[t].at = "start"
    /\ locking => mutex = "free"
    /\ mutex' = IF locking THEN t ELSE mutex
    /\ Step(Shared, t, "check", NullH)

\* what b = std::move(a) does before it looks at a: unique_any builds the
\* temporary, inplace_unique_any resets b
before_check(w, op, b) ==
    IF op # "assign_move" THEN w
    ELSE IF variant = "unique_any" THEN unique_any_default(w, rhs_tmp)
    ELSE inplace_unique_any_reset(w, b)

\* mutant: the call goes on whatever the pointer is
Check_unguarded(t) ==
    /\ pc[t].at = "check"
    /\ LET w == before_check(Shared, pc[t].op, pc[t].b)
       IN Step(w, t, "act", handler_of(w, pc[t].a))
    /\ UNCHANGED mutex

\* if (h_ != nullptr) / if (other.h_ != nullptr) / if (vtable_ != nullptr)
Check(t) ==
    /\ pc[t].at = "check"
    /\ LET w == before_check(Shared, pc[t].op, pc[t].b)
           seen == handler_of(w, pc[t].a)
       IN Step(w, t, IF seen # NullH THEN "act" ELSE "finish", seen)
    /\ UNCHANGED mutex

\* call(action::destroy) / vtable_->destroy(...); vtable_ = nullptr, through
\* the handler or vtable of type T
thread_destroy(w, a, T) ==
    IF T = NullH THEN Fault(w, TRUE, "call through a null handler")
    ELSE IF variant = "unique_any"
    THEN IF is_small_object_v(T) THEN small_buffer_handler_destroy(w, a, T)
         ELSE default_handler_destroy(w, a, T)
    ELSE [vtable_destroy(w, T, a) EXCEPT !.vtable_[a] = NullH]

\* other.call(action::move, &temporary) / the body of operator=(&&) of
\* inplace_unique_any, through the handler or vtable of type T
thread_move(w, a, b, T) ==
    IF T = NullH THEN Fault(w, TRUE, "call through a null handler")
    ELSE IF variant = "unique_any"
    THEN IF is_small_object_v(T) THEN small_buffer_handler_move(w, a, rhs_tmp, T)
         ELSE default_handler_move(w, a, rhs_tmp, T)
    ELSE LET w1 == vtable_move(w, T, b, a)
             w2 == [w1 EXCEPT !.vtable_[b] = w1.vtable_[a], !.vtable_[a] = NullH]
         IN vtable_destroy(w2, w2.vtable_[b], a)

\* the call through the pointer: the thread uses the pointer it read in the
\* test, or reads it again
Act(t) ==
    /\ pc[t].at = "act"
    /\ \E T \in {pc[t].seen, handler_of(Shared, pc[t].a)} :
          Step(IF pc[t].op = "reset" THEN thread_destroy(Shared, pc[t].a, T)
               ELSE thread_move(Shared, pc[t].a, pc[t].b, T),
               t, "finish", pc[t].seen)
    /\ UNCHANGED mutex

\* the rest of the call, which touches nothing of a: unique_any swaps the
\* temporary with b and destroys it; then the caller releases its lock
Finish(t) ==
    /\ pc[t].at = "finish"
    /\ LET w == IF pc[t].op = "assign_move" /\ variant = "unique_any"
                THEN unique_any_dtor(unique_any_swap(Shared, rhs_tmp, pc[t].b), rhs_tmp)
                ELSE Shared
       IN Step(w, t, "done", pc[t].seen)
    /\ mutex' = IF mutex = t THEN "free" ELSE mutex

\* both threads have been joined: b and a go out of scope
Join ==
    /\ \A t \in Threads : pc[t].at = "done"
    /\ Step(dtor(dtor(Shared, pc["t1"].b), pc["t1"].a), "t1", "joined", pc["t1"].seen)
    /\ UNCHANGED mutex

\* a holds a value, b holds a value or is empty, and the two threads start
InitThreads ==
    /\ variant \in {"unique_any", "inplace_unique_any"}
    /\ types = Types
    /\ locking \in BOOLEAN
    /\ mutex = "free"
    /\ \E a, b \in Containers, T, U \in Types, v \in Val, empty \in BOOLEAN, op \in ThreadOps :
          /\ a # b
          /\ LET w1 == value_ctor(Fresh, a, T, v)
                 w2 == IF empty THEN default_ctor(w1, b) ELSE value_ctor(w1, b, U, v)
             IN Started([w2 EXCEPT !.log = <<>>])
          /\ pc = [t \in Threads |->
                     [at |-> "start", op |-> IF t = "t1" THEN "reset" ELSE op,
                      a |-> a, b |-> b, seen |-> NullH]]

NextThreads ==
    \/ \E t \in Threads : Begin(t)
    \/ \E t \in Threads : Check(t)
    \/ \E t \in Threads : Act(t)
    \/ \E t \in Threads : Finish(t)
    \/ Join

SpecThreads == InitThreads /\ [][NextThreads]_vars

\* ------------------------------------------------ a constructor that throws
\* where the construction of the new value fails: in operator new, or in T's
\* constructor
FailStages == {"allocate", "construct"}

\* T's constructor or the allocation threw: the exception leaves the call
Threw == Out("exception", NullPtr, 0)

\* small_buffer_handler::create when allocator_traits::construct throws: the
\* handler is not bound
small_buffer_handler_create_throws(w, dest, T) ==
    LET w1 == Fault(w, w.s_[dest].m = "buf" /\ IsLive(w.s_[dest].buf),
                    "construct over a live object")
    IN Log(w1, Ev("throw", T, dest, dest, "none"))

\* mutant: the allocation is released from the hands of its holder before
\* the object is constructed
default_handler_create_throws_leak(w, dest, T, stage) ==
    LET a == allocate(w)
    IN IF stage = "allocate" THEN Log(w, Ev("throw", T, dest, dest, "none"))
       ELSE [Log(Log(w, Ev("allocate", T, dest, dest, "none")), Ev("throw", T, dest, dest, "none"))
                EXCEPT !.heap[a] = [alloc |-> TRUE, obj |-> NoObj], !.n_allocs = @ + 1]

\* default_handler::create when allocate or construct throws: the holder
\* (a std::unique_ptr with allocator_deleter) gives the allocation back
default_handler_create_throws(w, dest, T, stage) ==
    LET a  == allocate(w)
        w1 == [Log(w, Ev("allocate", T, dest, dest, "none"))
                 EXCEPT !.heap[a] = [alloc |-> TRUE, obj |-> NoObj], !.n_allocs = @ + 1]
        w2 == Log(w1, Ev("throw", T, dest, dest, "none"))
    IN IF stage = "allocate" THEN Log(w, Ev("throw", T, dest, dest, "none"))
       ELSE [Log(w2, Ev("deallocate", T, dest, dest, "none"))
               EXCEPT !.heap[a] = FreeCell, !.n_allocs = @ - 1]

handler_create_throws(w, dest, T, stage) ==
    IF is_small_object_v(T) THEN small_buffer_handler_create_throws(w, dest, T)
    ELSE default_handler_create_throws(w, dest, T, stage)

\* new (buffer_.data()) T(...) throws: vtable_ is not assigned
inplace_unique_any_construct_throws(w, c, T) ==
    LET w1 == Fault(w, IsLive(w.buffer_[c]), "construct over a live object")
    IN Log(w1, Ev("throw", T, c, c, "none"))

\* new model<T>(...) throws: the new-expression gives the allocation back
model_new_throws(w, c, T, stage) ==
    IF stage = "allocate" THEN Log(w, Ev("throw", T, c, c, "none"))
    ELSE Log(Log(Log(w, Ev("allocate", T, c, c, "none")), Ev("throw", T, c, c, "none")),
             Ev("deallocate", T, c, c, "none"))

\* emplace<T>(args...) when the construction of the T fails
emplace_throws(w, c, T, stage) ==
    CASE variant = "unique_any" -> handler_create_throws(unique_any_reset(w, c), c, T, stage)
      [] variant = "inplace_unique_any" ->
            inplace_unique_any_construct_throws(inplace_unique_any_reset(w, c), c, T)
      [] variant = "unique_any_model" -> model_new_throws(w, c, T, stage)

\* mutant: the container is reset before the new value is built in it
value_assign_throws_reset_first(w, c, T, stage) ==
    IF variant = "unique_any_model" THEN model_new_throws(unique_any_model_reset(w, c), c, T, stage)
    ELSE emplace_throws(w, c, T, stage)

\* c = value when the construction of the T fails: unique_any fails in the
\* constructor of the temporary, before swap; inplace_unique_any after reset()
value_assign_throws(w, c, T, stage) ==
    CASE variant = "unique_any" ->
            [handler_create_throws(unique_any_default(w, rhs_tmp), rhs_tmp, T, stage)
               EXCEPT !.alive[rhs_tmp] = FALSE]
      [] variant = "inplace_unique_any" ->
            inplace_unique_any_construct_throws(inplace_unique_any_reset(w, c), c, T)
      [] variant = "unique_any_model" ->
            [model_new_throws(unique_any_model_default(w, rhs_tmp), rhs_tmp, T, stage)
               EXCEPT !.alive[rhs_tmp] = FALSE]

EmplaceThrows(form, c, T, stage) ==
    /\ alive[c] /\ accepts(form, T)
    /\ Commit(emplace_throws(World, c, T, stage), R(form, c, 0, T, 0, Threw))

ValueAssignThrows(self, T, stage) ==
    /\ alive[self] /\ accepts("assign_value", T)
    /\ Commit(value_assign_throws(World, self, T, stage), R("assign_value", self, 0, T, 0, Threw))

\* a client whose value types have constructors that can throw: one type
\* kept inline by unique_any and one kept on the heap, both fitting the
\* in-place buffer
InitThrows == Boot({"unique_any", "inplace_unique_any", "unique_any_model"}, {"small", "large"})

NextThrows ==
    \/ Next
    \/ Idle /\ \E form \in EmplaceForms, c \in Containers, T \in types, stage \in FailStages :
                  EmplaceThrows(form, c, T, stage)
    \/ Idle /\ \E self \in Containers, T \in types, stage \in FailStages :
                  ValueAssignThrows(self, T, stage)

SpecThrows == InitThrows /\ [][NextThrows]_vars

\* --------------------------------------------------- observers on a state
has_value(w, c) ==
    CASE variant = "unique_any" -> unique_any_has_value(w, c)
      [] variant = "inplace_unique_any" -> inplace_unique_any_has_value(w, c)
      [] variant = "unique_any_model" -> unique_any_model_has_value(w, c)

type(w, c) ==
    CASE variant = "unique_any" -> unique_any_type(w, c)
      [] variant = "inplace_unique_any" -> inplace_unique_any_type(w, c)
      [] variant = "unique_any_model" -> unique_any_model_type(w, c)

\* the object any_cast<type()>(&c) points at
held(w, c) ==
    IF has_value(w, c)
    THEN Deref(w, (CHOOSE r \in cast_ptr(w, c, type(w, c)) : TRUE).p)
    ELSE NoObj

\* what a caller can learn about c: its type tag and the value behind it
content(w, c) == [T |-> type(w, c), v |-> held(w, c).v]

IsHeapStored(w, c) ==
    variant = "unique_any" /\ w.h_[c] # NullH /\ ~is_small_object_v(w.h_[c])

\* ------------------------------------------------------------------- claims

\* C1: every constructed value object is destroyed exactly once. No destroy or
\* move ever acts on storage that holds no object of the handler's type, no
\* object is constructed over a live one, no storage is released with a live
\* object in it; every live object (inline, on the heap, in a buffer) belongs
\* to exactly one living container whose handler / vtable is the one of the
\* object's type, so that reset or the destructor destroys it; the temporaries
\* of swap and operator= hold nothing between operations; and once every
\* container is destroyed no object is live and no allocation remains.
C1_ExactlyOnceDestruction ==
    /\ fault = ""
    /\ \A c \in Slots :
          /\ IsLive(s_[c].buf) => alive[c] /\ h_[c] = s_[c].buf.T /\ s_[c].m = "buf"
          /\ IsLive(buffer_[c]) => alive[c] /\ vtable_[c] = buffer_[c].T
          /\ ~alive[c] => h_[c] = NullH /\ vtable_[c] = NullH
    /\ ~alive[tmp] /\ ~alive[rhs_tmp]
    /\ \A a \in Addr :
          heap[a].alloc =>
             /\ IsLive(heap[a].obj)
             /\ Cardinality({c \in Containers :
                               alive[c] /\ h_[c] = heap[a].obj.T /\ s_[c].m = "ptr"
                               /\ s_[c].ptr = a}) = 1
    /\ \A a \in Addr : ~heap[a].alloc => ~IsLive(heap[a].obj)
    /\ (\A c \in Containers : ~alive[c]) =>
          /\ \A a \in Addr : ~heap[a].alloc
          /\ n_allocs = 0

\* C1 witness: two non-empty containers holding different types have been
\* swapped through the temporary
C1_Witness ==
    /\ ret.op = "swap" /\ ret.self # ret.other
    /\ has_value(World, ret.self) /\ has_value(World, ret.other)
    /\ type(World, ret.self) # type(World, ret.other)

\* C2: b(move(a)) and b = move(a), a # b, a holding v of type T: afterwards a
\* is empty with type() == typeid(void), b has a value of type T, and it is v.
C2_MoveLeavesSourceEmpty ==
    [][(ret'.op \in {"ctor_move", "assign_move"} /\ ret'.self # ret'.other
          /\ has_value(World, ret'.other))
        => LET a == ret'.other
               b == ret'.self
               T == type(World, a)
               v == held(World, a).v
           IN /\ ~has_value(World', a) /\ type(World', a) = "void"
              /\ has_value(World', b) /\ type(World', b) = T
              /\ held(World', b) = Obj(T, v)
              /\ cast_ref(World', b, T) = {Out("value", r.p, v) : r \in cast_ptr(World', b, T)}
              /\ \A r \in cast_ptr(World', b, T) : r.p # NullPtr
      ]_vars

\* C2 witness: a value has been move-assigned over a value of another type; in
\* the heap variant it is heap-stored, and the stale pointer of the source is
\* the one the destination now owns
C2_Witness ==
    /\ ret.op = "assign_move" /\ ret.self # ret.other
    /\ ~has_value(World, ret.other) /\ has_value(World, ret.self)
    /\ variant = "unique_any" =>
          IsHeapStored(World, ret.self) /\ s_[ret.other].ptr = s_[ret.self].ptr

\* C3: a.swap(b) and swap(a, b) exchange what a and b hold, type and value, in
\* all four cases (both non-empty, either one empty, both empty); a.swap(a)
\* changes nothing.
C3_SwapExchanges ==
    [][ret'.op \in SwapForms
        => LET a == ret'.self
               b == ret'.other
           IN /\ content(World', a) = content(World, b)
              /\ content(World', b) = content(World, a)
              /\ has_value(World', a) = has_value(World, b)
              /\ has_value(World', b) = has_value(World, a)
              /\ a = b => UNCHANGED <<h_, s_, heap, vtable_, buffer_>>
              /\ (~has_value(World, a) /\ ~has_value(World, b))
                    => UNCHANGED <<h_, s_, heap, vtable_, buffer_>>
      ]_vars

\* C3 witness: two non-empty containers of different types and different
\* values have been swapped by the free function
C3_Witness ==
    /\ ret.op = "free_swap" /\ ret.self # ret.other
    /\ has_value(World, ret.self) /\ has_value(World, ret.other)
    /\ type(World, ret.self) # type(World, ret.other)
    /\ held(World, ret.self).v # held(World, ret.other).v

\* C4: any_cast<T>(p) on a pointer never raises; it is non-null exactly when p
\* is non-null, *p has a value and the held type tag is tag(T), and then it
\* points at the held object of type T; in every other case it is null.
C4_PointerCast ==
    ret.op \in PtrCastForms =>
        LET c == ret.self
            T == ret.T
            r == ret.out
        IN /\ r.k = "ptr"
           /\ r.p # NullPtr <=> (c # nullptr /\ has_value(World, c) /\ type(World, c) = T)
           /\ r.p # NullPtr =>
                 /\ Deref(World, r.p) = held(World, c)
                 /\ Deref(World, r.p).T = T

\* C5: the reference / value casts (const lvalue, lvalue, rvalue operand) throw
\* the bad-cast error exactly when the pointer cast of the same type gives
\* null, that is when the container is empty or holds another type; otherwise
\* they yield the held value; no other operation throws it.
AllRefCasts == RefCastForms \cup {"cast_rvalue"}

C5_ReferenceCast ==
    [][/\ ret'.op \in AllRefCasts =>
            LET c == ret'.self
                T == ret'.T
                r == ret'.out
            IN /\ r = Thrown <=> cast_ptr(World, c, T) = {Out("ptr", NullPtr, 0)}
               /\ r = Thrown <=> (~has_value(World, c) \/ type(World, c) # T)
               /\ r # Thrown =>
                     /\ r.k = "value"
                     /\ r.x = held(World, c).v
                     /\ held(World, c).T = T
       /\ ret'.out.k = "bad_any_cast" => ret'.op \in AllRefCasts
      ]_vars

\* C5 witness: a cast to another type than the held one has thrown
C5_Witness ==
    /\ ret.op \in AllRefCasts /\ ret.out = Thrown
    /\ has_value(World, ret.self) /\ type(World, ret.self) # ret.T

\* C6: after a successful any_cast<T>(std::move(c)) the container still has a
\* value of type T; the held object is in its moved-from state (a held
\* std::unique_ptr is null), the result is the value held before, and
\* nothing else has changed.
C6_RvalueCastKeepsValue ==
    [][(ret'.op = "cast_rvalue" /\ ret'.out.k = "value") =>
          LET c == ret'.self
              T == ret'.T
              v == held(World, c).v
          IN /\ has_value(World', c) /\ type(World', c) = T
             /\ held(World', c) = Obj(T, moved_from(T, v))
             /\ T = "unique_ptr" => held(World', c).v = 0
             /\ ret'.out.x = v
             /\ UNCHANGED <<alive, h_, vtable_, n_allocs, fault>>
             /\ \A d \in Containers \ {c} : content(World', d) = content(World, d)
      ]_vars

\* C6 witness: a non-null std::unique_ptr has been extracted by the rvalue
\* cast and the container holds a null one
C6_Witness ==
    /\ ret.op = "cast_rvalue" /\ ret.T = "unique_ptr"
    /\ ret.out.k = "value" /\ ret.out.x # 0
    /\ has_value(World, ret.self) /\ held(World, ret.self) = Obj("unique_ptr", 0)

\* a value is moved out of container c by the step: c is the source of a move
\* into another container, the non-empty side of a swap with an empty
\* container, or the operand of a successful rvalue cast
MovedOutByMove(c) ==
    /\ ret'.op \in {"ctor_move", "assign_move"}
    /\ ret'.other = c /\ ret'.self # c /\ has_value(World, c)
MovedOutBySwap(c) ==
    /\ ret'.op \in SwapForms /\ ret'.self # ret'.other
    /\ c \in {ret'.self, ret'.other} /\ has_value(World, c)
    /\ \E o \in {ret'.self, ret'.other} \ {c} : ~has_value(World, o)
MovedOutByCast(c) ==
    ret'.op = "cast_rvalue" /\ ret'.self = c /\ ret'.out.k = "value"

\* C7 as stated: once a value is moved out of a container by container move,
\* swap or the rvalue cast, the container is empty when the operation returns.
C7_MovedOutIsEmpty ==
    [][\A c \in Containers :
          (MovedOutByMove(c) \/ MovedOutBySwap(c) \/ MovedOutByCast(c))
             => ~has_value(World', c)
      ]_vars

\* C7 amended: a container whose value is moved out by container move or swap
\* is empty when the operation returns, and its storage holds no object any
\* more; the rvalue cast does not empty its operand, which still has a value.
C7_MovedOutIsEmptyExceptCast ==
    [][\A c \in Containers :
          /\ (MovedOutByMove(c) \/ MovedOutBySwap(c)) =>
                /\ ~has_value(World', c)
                /\ type(World', c) = "void"
                /\ ~IsLive(s_'[c].buf) /\ ~IsLive(buffer_'[c])
          /\ MovedOutByCast(c) => has_value(World', c)
      ]_vars

\* C7 witness: a swap has moved the value of one container into an empty one
C7_Witness ==
    /\ ret.op = "swap" /\ ret.self # ret.other
    /\ has_value(World, ret.self) /\ ~has_value(World, ret.other)
    /\ variant = "unique_any" => s_[ret.other] = BufStorage(NoObj)

\* C8: has_value() is false exactly when type() is typeid(void); a default
\* constructed container is empty; a container constructed from a value of
\* type T by constructor (4), (5) or (6) has a value and type() == typeid(T).
C8_HasValueAndType ==
    /\ \A c \in Containers :
          alive[c] => (~has_value(World, c) <=> type(World, c) = "void")
    /\ ret.op = "ctor_default" =>
          ~has_value(World, ret.self) /\ type(World, ret.self) = "void"
    /\ ret.op \in CtorForms =>
          has_value(World, ret.self) /\ type(World, ret.self) = ret.T

\* C8 witness: the initializer-list constructor has built a heap-stored value
C8_Witness ==
    /\ ret.op = "ctor_in_place_il" /\ ret.T = "large"
    /\ has_value(World, ret.self)

\* what the reference casts of type T give for c, without the place read
CastValues(w, c, T) == {[k |-> r.k, x |-> r.x] : r \in cast_ref(w, c, T)}

\* C9: any_cast<T&> of a container constructed from v yields v, and a move
\* construction or move assignment hands on what every cast of the source
\* yielded, so the value survives any chain of moves unchanged.
C9_RoundTrip ==
    [][/\ ret'.op \in CtorForms =>
            CastValues(World', ret'.self, ret'.T) = {[k |-> "value", x |-> ret'.v]}
       /\ (ret'.op \in {"ctor_move", "assign_move"} /\ has_value(World, ret'.other)) =>
            /\ \A T \in Types :
                  CastValues(World', ret'.self, T) = CastValues(World, ret'.other, T)
            /\ CastValues(World', ret'.self, type(World, ret'.other))
                  = {[k |-> "value", x |-> held(World, ret'.other).v]}
      ]_vars

\* C9 witness: a std::unique_ptr moved to a second container has been
\* move-assigned back to the first
C9_Witness ==
    /\ ret.op = "assign_move" /\ ret.self # ret.other
    /\ held(World, ret.self).T = "unique_ptr" /\ held(World, ret.self).v # 0
    /\ variant = "unique_any" => s_[ret.other] = BufStorage(NoObj)

\* the values the tests call oversized for the small buffer
Oversized == {"large"}
HeapCount(w) ==
    Cardinality({c \in Containers :
                   w.alive[c] /\ variant = "unique_any" /\ type(w, c) \in Oversized})
OnHeap(w, c) == IF variant = "unique_any" /\ type(w, c) \in Oversized THEN 1 ELSE 0
NewOnHeap(T) == IF variant = "unique_any" /\ T \in Oversized THEN 1 ELSE 0

\* C10: the number of live allocations is the number of heap-variant
\* containers holding an oversized value. Constructing from a small value
\* changes it by 0, from an oversized value by +1; reset, destruction and
\* replacement release the allocation of a heap-stored value (-1, plus the +1
\* of an oversized replacement); move construction and swap change it by 0;
\* move assignment releases only the destination's old value; no operation of
\* the in-place variant changes it.
C10_AllocationAccounting ==
    [][LET op == ret'.op
           c  == ret'.self
           d  == n_allocs' - n_allocs
       IN /\ n_allocs' = HeapCount(World')
          /\ op \in CtorForms => d = NewOnHeap(ret'.T)
          /\ op \in {"reset", "dtor"} => d = 0 - OnHeap(World, c)
          /\ op \in EmplaceForms \cup {"assign_value"} =>
                d = NewOnHeap(ret'.T) - OnHeap(World, c)
          /\ op = "assign_move" =>
                d = IF c = ret'.other THEN 0 ELSE 0 - OnHeap(World, c)
          /\ op \in SwapForms \cup {"ctor_move", "ctor_default", "none"} => d = 0
          /\ op \in PtrCastForms \cup AllRefCasts => d = 0
          /\ variant = "inplace_unique_any" => n_allocs' = 0 /\ d = 0
      ]_vars

\* C10 witness: an empty container has been move-assigned to one holding an
\* oversized value (any = {}), which released the only allocation
C10_Witness ==
    /\ ret.op = "assign_move" /\ variant = "unique_any"
    /\ ~has_value(World, ret.self) /\ ~has_value(World, ret.other)
    /\ s_[ret.self].m = "ptr" /\ s_[ret.self].ptr # nullptr
    /\ n_allocs = 0

\* the entry points that store a value of type T
StoringForms == CtorForms \cup {"assign_value"} \cup EmplaceForms

Fits(T) == sizeof(T) <= SIZE /\ alignof(T) <= ALIGN

\* a call the compiler rejected: nothing ran
Rejected ==
    /\ ret'.out = IllFormed
    /\ ret'.log = <<>>
    /\ UNCHANGED <<alive, h_, s_, heap, n_allocs, vtable_, buffer_, fault, state_>>

\* a storing call that was compiled and left its container holding the T
AcceptedInplace ==
    /\ ret'.out # IllFormed
    /\ alive'[ret'.self]
    /\ vtable_'[ret'.self] = ret'.T
    /\ buffer_'[ret'.self] = Obj(ret'.T, ret'.v)

\* C11 as stated: in inplace_unique_any<SIZE, ALIGN> every storing entry point
\* is rejected, with nothing constructed and nothing changed, when
\* sizeof(T) > SIZE or alignof(T) > ALIGN, and is accepted when
\* sizeof(T) <= SIZE and alignof(T) <= ALIGN, sizeof(T) = SIZE included; the
\* heap is never used.
C11_RejectedIffTooLarge ==
    [][variant = "inplace_unique_any" /\ ret'.op \in StoringForms =>
          /\ ~Fits(ret'.T) => Rejected
          /\ Fits(ret'.T) => AcceptedInplace
          /\ heap' = heap /\ n_allocs' = 0]_vars

\* C11 amended: a T that fits is accepted only if it is also nothrow move
\* constructible; a T that fits and is not (std::atomic<int>) is rejected like
\* one that is too large or over-aligned.
C11_RejectedIffTooLargeOrNotNothrowMovable ==
    [][variant = "inplace_unique_any" /\ ret'.op \in StoringForms =>
          /\ ~Fits(ret'.T) => Rejected
          /\ Fits(ret'.T) /\ ~is_nothrow_move_constructible_v(ret'.T) => Rejected
          /\ Fits(ret'.T) /\ is_nothrow_move_constructible_v(ret'.T) => AcceptedInplace
          /\ heap' = heap /\ n_allocs' = 0]_vars

\* C11 witness: a container that accepted a value of exactly SIZE bytes has
\* then been assigned a value of the same size whose alignment is too large,
\* and that assignment was rejected
C11_Witness ==
    /\ variant = "inplace_unique_any"
    /\ ret.op = "assign_value" /\ ret.out = IllFormed
    /\ sizeof(ret.T) = SIZE /\ alignof(ret.T) > ALIGN
    /\ vtable_[ret.self] # NullH /\ sizeof(vtable_[ret.self]) = SIZE

\* where the value of a non-empty container lives
Place(w, c) == (CHOOSE r \in cast_ptr(w, c, type(w, c)) : TRUE).p

\* every live value object, by its place
LiveObjects(w) ==
    {BufPtr(c) : c \in {d \in Slots : w.s_[d].m = "buf" /\ IsLive(w.s_[d].buf)}}
    \cup {BufferPtr(c) : c \in {d \in Slots : IsLive(w.buffer_[d])}}
    \cup {HeapPtr(a) : a \in {b \in Addr : w.heap[b].alloc}}

Holders(w) == {c \in Containers : w.alive[c] /\ has_value(w, c)}

\* each live value has exactly one owner, each owner exactly one live value
SingleOwner(w) ==
    LET owners == Holders(w)
        live   == LiveObjects(w)
    IN /\ {Place(w, c) : c \in owners} = live
       /\ Cardinality(owners) = Cardinality(live)

\* what each container holds, "void" for the ones that hold nothing
Contents(w) ==
    [c \in Containers |-> IF c \in Holders(w) THEN content(w, c) ELSE Obj("void", 0)]

\* how many containers hold the value x
HeldCount(held_by, x) == Cardinality({c \in Containers : held_by[c] = x})

\* C12: in the state every operation leaves, each live value is owned by
\* exactly one container; move construction, move assignment and swap leave
\* the multiset of held values as it was, except that b = move(a), a # b,
\* removes the one value b held before.
C12_SingleOwnership ==
    [][/\ ret # NoRet => SingleOwner(World)
       /\ ret'.op \in {"ctor_move", "assign_move", "swap", "free_swap"} =>
             LET before == Contents(World)
                 after  == Contents(World')
                 gone   == IF ret'.op = "assign_move" /\ ret'.self # ret'.other
                           THEN {before[ret'.self]} ELSE {}
             IN \A x \in ({before[c] : c \in Containers} \cup {after[c] : c \in Containers})
                            \ {Obj("void", 0)} :
                   HeldCount(after, x)
                      = HeldCount(before, x) - (IF x \in gone THEN 1 ELSE 0)]_vars

\* C12 witness: b = move(a) has returned, b holds a's value and the value of
\* another type that b held before was destroyed
C12_Witness ==
    /\ ret.op = "assign_move" /\ ret.self # ret.other
    /\ has_value(World, ret.self) /\ ~has_value(World, ret.other)
    /\ \E i \in 1..Len(ret.log) :
          /\ ret.log[i].e \in {"destroy", "delete"}
          /\ ret.log[i].obj # type(World, ret.self)

\* the live objects in the storage of a unique_any: the one in its buffer, or
\* the one its pointer leads to unless that one now belongs to a container the
\* pointer was handed to
unique_any_in_storage(w, c) ==
    IF w.s_[c].m = "buf"
    THEN IF IsLive(w.s_[c].buf) THEN {w.s_[c].buf} ELSE {}
    ELSE IF w.s_[c].ptr \in Addr /\ w.heap[w.s_[c].ptr].alloc
            /\ ~\E d \in Slots \ {c} :
                  /\ w.alive[d] /\ w.h_[d] # NullH
                  /\ w.s_[d].m = "ptr" /\ w.s_[d].ptr = w.s_[c].ptr
         THEN {w.heap[w.s_[c].ptr].obj}
         ELSE {}

inplace_unique_any_in_storage(w, c) ==
    IF IsLive(w.buffer_[c]) THEN {w.buffer_[c]} ELSE {}

\* C13: between operations, for every living container, the handler / vtable
\* pointer is non-null exactly if the storage holds one live object, that
\* object has the type the handler / vtable is the one of, and a null handler
\* / vtable goes with storage that holds no live object.
C13_HandlerIffLiveObject ==
    \A c \in Containers :
       alive[c] =>
          LET held_u == unique_any_in_storage(World, c)
              held_i == inplace_unique_any_in_storage(World, c)
          IN /\ variant = "unique_any" =>
                   /\ h_[c] # NullH <=> Cardinality(held_u) = 1
                   /\ h_[c] = NullH <=> held_u = {}
                   /\ \A o \in held_u : o.T = h_[c] /\ unique_any_type(World, c) = o.T
             /\ variant = "inplace_unique_any" =>
                   /\ vtable_[c] # NullH <=> Cardinality(held_i) = 1
                   /\ vtable_[c] = NullH <=> held_i = {}
                   /\ \A o \in held_i :
                         o.T = vtable_[c] /\ inplace_unique_any_type(World, c) = o.T

\* C13 witness: a container was emptied by a move into another one, which now
\* holds the object while the first one is still alive
C13_Witness ==
    /\ ret.op = "ctor_move"
    /\ alive[ret.other] /\ ~has_value(World, ret.other)
    /\ has_value(World, ret.self)
    /\ Len(ret.log) > 0

\* the steps of the last call that ended the life of an object
Destroyed(log) == {i \in 1..Len(log) : log[i].e \in {"destroy", "delete"}}

\* the steps of the last call that built an object from arguments
Constructed(log) == {i \in 1..Len(log) : log[i].e \in {"construct", "new"}}

\* C14: emplace<T>(args...) and emplace<T>(il, args...), on an empty or a
\* non-empty container, destroy the held value exactly once, construct one new
\* T, leave type() = T, and return a reference to the new value, the object
\* the pointer cast to T then finds; in every implementation of the container.
C14_Emplace ==
    [][ret'.op \in EmplaceForms /\ ret'.out # IllFormed =>
          LET c == ret'.self
          IN /\ Cardinality(Destroyed(ret'.log)) = IF has_value(World, c) THEN 1 ELSE 0
             /\ \A i \in Destroyed(ret'.log) : ret'.log[i].obj = type(World, c)
             /\ Cardinality(Constructed(ret'.log)) = 1
             /\ \A i \in Constructed(ret'.log) :
                   ret'.log[i].obj = ret'.T
             /\ has_value(World', c) /\ type(World', c) = ret'.T
             /\ held(World', c) = Obj(ret'.T, ret'.v)
             /\ fault' = ""
             /\ ret'.out = Out("value", Place(World', c), ret'.v)]_vars

\* objects of type X that the last call brought to life, minus those it
\* destroyed (a relocation is a move construction and a destruction)
Balance(log, X) ==
    Cardinality({i \in 1..Len(log) : log[i].e \in {"construct", "new", "move"} /\ log[i].T = X})
    - Cardinality({i \in 1..Len(log) : log[i].e \in {"destroy", "delete"} /\ log[i].obj = X})

\* C15: c = v with v a T, c empty or not: afterwards c holds a T equal to v,
\* type() = T, the value held before has been destroyed exactly once (of each
\* type as many objects are left as before, one more T and one less of the
\* old type, and no destroy acted on anything but a live object), and the
\* caller's object passed as an rvalue is moved-from, a moved owning pointer
\* null.
C15_ValueAssign ==
    [][ret'.op = "assign_value" /\ ret'.out # IllFormed =>
          LET c == ret'.self
          IN /\ has_value(World', c) /\ type(World', c) = ret'.T
             /\ held(World', c) = Obj(ret'.T, ret'.v)
             /\ fault' = ""
             /\ \A X \in Types :
                   Balance(ret'.log, X) =
                      (IF X = ret'.T THEN 1 ELSE 0)
                      - (IF has_value(World, c) /\ type(World, c) = X THEN 1 ELSE 0)
             /\ Cardinality(LiveObjects(World')) =
                   Cardinality(LiveObjects(World)) + 1 - (IF has_value(World, c) THEN 1 ELSE 0)
             /\ \A d \in Containers \ {c} :
                   /\ alive'[d] = alive[d]
                   /\ h_'[d] = h_[d] /\ s_'[d] = s_[d]
                   /\ vtable_'[d] = vtable_[d] /\ buffer_'[d] = buffer_[d]
                   /\ s_[d].ptr \in Addr /\ h_[d] # NullH =>
                         heap'[s_[d].ptr] = heap[s_[d].ptr]
             /\ ret'.out.k = "arg" /\ ret'.out.x = moved_from(ret'.T, ret'.v)
             /\ ret'.T = "unique_ptr" => ret'.out.x = nullptr]_vars

\* C15 witness: an owning pointer was assigned as an rvalue to a container that
\* held a value of another type; the caller's pointer is null and the old
\* value was destroyed
C15_Witness ==
    /\ ret.op = "assign_value" /\ ret.T = "unique_ptr"
    /\ ret.out.k = "arg" /\ ret.out.x = nullptr
    /\ held(World, ret.self) = Obj("unique_ptr", ret.v)
    /\ \E i \in 1..Len(ret.log) :
          ret.log[i].e \in {"destroy", "delete"} /\ ret.log[i].obj # "unique_ptr"

\* C16: reset() on a non-empty container makes one call of the stored destroy
\* operation, on the held object, and leaves has_value() false and type()
\* void; on an empty container it changes nothing; a second reset() right
\* after the first changes nothing.
C16_Reset ==
    [][ret'.op = "reset" =>
          LET c == ret'.self
          IN /\ has_value(World, c) =>
                   /\ Len(ret'.log) = 1
                   /\ ret'.log[1].e \in {"destroy", "delete"}
                   /\ ret'.log[1].at = c
                   /\ ret'.log[1].T = type(World, c)
                   /\ ret'.log[1].obj = type(World, c)
                   /\ Cardinality(LiveObjects(World')) = Cardinality(LiveObjects(World)) - 1
             /\ ~has_value(World, c) =>
                   /\ ret'.log = <<>>
                   /\ UNCHANGED <<alive, h_, s_, heap, n_allocs, vtable_, buffer_, fault, state_>>
             /\ ~has_value(World', c) /\ type(World', c) = "void"
             /\ fault' = ""
             /\ reset(World', c) = World'
             /\ \A d \in Containers \ {c} :
                   /\ alive'[d] = alive[d]
                   /\ h_'[d] = h_[d] /\ s_'[d] = s_[d]
                   /\ vtable_'[d] = vtable_[d] /\ buffer_'[d] = buffer_[d]
                   /\ s_[d].ptr \in Addr /\ h_[d] # NullH =>
                         heap'[s_[d].ptr] = heap[s_[d].ptr]]_vars

\* C16 witness: reset() has deleted a heap-stored value
C16_Witness ==
    /\ ret.op = "reset"
    /\ Len(ret.log) = 1 /\ ret.log[1].e = "delete"
    /\ alive[ret.self] /\ ~has_value(World, ret.self)

\* the containers holding an object of the immovable type
HoldsImmovable(w) ==
    {c \in Containers : w.alive[c] /\ unique_any_has_value(w, c)
                        /\ ~is_move_constructible_v(unique_any_type(w, c))}

\* the container that has c's object after the transfer the last call made
TransferredTo(c) ==
    CASE ret'.op \in {"ctor_move", "assign_move"} /\ c = ret'.other -> ret'.self
      [] ret'.op \in SwapForms /\ c = ret'.self -> ret'.other
      [] ret'.op \in SwapForms /\ c = ret'.other -> ret'.self
      [] OTHER -> c

\* C17: unique_any constructed in place with a type that has no move
\* constructor keeps the object behind an owning pointer; move construction,
\* move assignment and swap hand over only the pointer: the object stays at
\* its address, unchanged, no constructor or destructor runs on it (the only
\* such call is the destructor of the object the destination of b = move(a)
\* held before), and a container that was moved from is empty afterwards.
C17_ImmovableByPointer ==
    [][variant = "unique_any" =>
          /\ ret'.op \in {"ctor_in_place", "ctor_in_place_il"} /\ ret'.out # IllFormed
             /\ ~is_move_constructible_v(ret'.T) =>
                /\ s_'[ret'.self].m = "ptr" /\ s_'[ret'.self].ptr \in Addr
                /\ heap'[s_'[ret'.self].ptr] = [alloc |-> TRUE, obj |-> Obj(ret'.T, ret'.v)]
                /\ ret'.self \in HoldsImmovable(World')
          /\ ret'.op \in {"ctor_move", "assign_move"} \cup SwapForms =>
                \A c \in HoldsImmovable(World) :
                   \* b = move(a), a # b, destroys the object b held
                   ~(ret'.op = "assign_move" /\ c = ret'.self /\ c # ret'.other) =>
                      LET d == TransferredTo(c)
                          p == s_[c].ptr
                      IN /\ d \in HoldsImmovable(World')
                         /\ s_'[d].m = "ptr" /\ s_'[d].ptr = p
                         /\ heap'[p] = heap[p]
                         /\ d # c => ~unique_any_has_value(World', c)
                                     \/ ret'.op \in SwapForms
                         /\ Cardinality({i \in 1..Len(ret'.log) :
                                            /\ ret'.log[i].obj = unique_any_type(World, c)
                                            /\ ret'.log[i].e # "pointer"})
                               = IF ret'.op = "assign_move" /\ ret'.self # ret'.other
                                    /\ ret'.self \in HoldsImmovable(World)
                                 THEN 1 ELSE 0
                         /\ fault' = ""]_vars

\* C17 witness: a container holding the immovable type and one holding a small
\* movable value have been swapped, the pointer going through the temporary
C17_Witness ==
    /\ variant = "unique_any"
    /\ ret.op \in SwapForms
    /\ ret.self \in HoldsImmovable(World)
    /\ unique_any_has_value(World, ret.other)
    /\ ret.other \notin HoldsImmovable(World)
    /\ \E i \in 1..Len(ret.log) : ret.log[i].e = "pointer" /\ ret.log[i].src = tmp

\* what a caller sees of a result: its kind, whether the pointer is null, and
\* the value read through it (addresses differ between the two classes)
Seen(r) == [k |-> r.k, null |-> r.p = NullPtr, x |-> r.x]

\* C18: a unique_any and an inplace_unique_any driven by the same calls, over
\* types that fit the in-place buffer, agree after every step on has_value(),
\* on type(), and on what every pointer cast and every reference cast yields
\* (a value, null, or bad_any_cast); the results the last call handed back
\* agree as well.
C18_Lockstep ==
    variant = "lockstep" =>
       /\ fault = ""
       /\ \A c \in Containers :
             alive[c] =>
                /\ unique_any_has_value(World, c) = inplace_unique_any_has_value(World, c)
                /\ unique_any_type(World, c) = inplace_unique_any_type(World, c)
                /\ \A T \in types :
                      /\ {Seen(r) : r \in unique_any_cast_ptr(World, c, T)}
                            = {Seen(r) : r \in inplace_unique_any_cast_ptr(World, c, T)}
                      /\ {Seen(r) : r \in deref_or_throw(World, unique_any_cast_ptr(World, c, T))}
                            = {Seen(r) : r \in deref_or_throw(World,
                                                  inplace_unique_any_cast_ptr(World, c, T))}
       /\ ret.out.k = "both" =>
             Seen(ret.out.unique_any) = Seen(ret.out.inplace_unique_any)

\* C18 witness: a = move(a) on a container holding the type that unique_any
\* keeps on the heap and inplace_unique_any in its buffer
C18_Witness ==
    /\ variant = "lockstep"
    /\ ret.op = "assign_move" /\ ret.self = ret.other
    /\ unique_any_has_value(World, ret.self) /\ ~is_small_object_v(unique_any_type(World, ret.self))
    /\ inplace_unique_any_has_value(World, ret.self)

\* b = move(a) has been called with a # b and both holding a value
BothHeld ==
    /\ ret'.op = "assign_move" /\ ret'.self # ret'.other
    /\ has_value(World, ret'.self) /\ has_value(World, ret'.other)

\* step i of the last call ended the life of an object of type X kept by slot at
DestroysAt(i, at, X) ==
    /\ ret'.log[i].e \in {"destroy", "delete"}
    /\ ret'.log[i].at = at /\ ret'.log[i].obj = X

\* step i of the last call put a value of type X into slot at
PutsInto(i, at, X) ==
    /\ ret'.log[i].e \in {"construct", "move", "pointer"}
    /\ ret'.log[i].at = at /\ ret'.log[i].obj = X

\* C19 as stated: in b = move(a) with b non-empty, in both classes, the first
\* thing done is the destruction of the value b held, and only then is a's
\* value put into b.
C19_DestinationDestroyedFirst ==
    [][BothHeld =>
          /\ DestroysAt(1, ret'.self, type(World, ret'.self))
          /\ \A i \in 1..Len(ret'.log) :
                PutsInto(i, ret'.self, type(World, ret'.other)) => i > 1]_vars

\* C19 amended: inplace_unique_any destroys b's value first, then moves a's
\* value into b and destroys what is left in a. unique_any first moves a's
\* value into a temporary, swaps the temporary with b, and destroys the
\* value b held last, with the temporary, after a's value has reached b.
C19_DestroyedFirstInplaceLastHeap ==
    [][BothHeld =>
          LET b == ret'.self
              a == ret'.other
              n == Len(ret'.log)
          IN /\ variant = "inplace_unique_any" =>
                   /\ n = 3
                   /\ DestroysAt(1, b, type(World, b))
                   /\ PutsInto(2, b, type(World, a)) /\ ret'.log[2].src = a
                   /\ DestroysAt(3, a, type(World, a))
             /\ variant = "unique_any" =>
                   /\ n > 2
                   /\ PutsInto(1, rhs_tmp, type(World, a))
                   /\ DestroysAt(n, rhs_tmp, type(World, b))
                   /\ \E i \in 2..(n - 1) : PutsInto(i, b, type(World, a))
                   /\ ~DestroysAt(1, b, type(World, b))
             /\ content(World', b) = content(World, a)
             /\ ~has_value(World', a)
             /\ fault' = ""]_vars

\* C19 witness: unique_any b = move(a) where b held a heap-stored value and a
\* a small one: the call began by constructing in the temporary and ended by
\* deleting b's old value
C19_Witness ==
    /\ variant = "unique_any"
    /\ ret.op = "assign_move" /\ ret.self # ret.other
    /\ Len(ret.log) > 2
    /\ ret.log[1].e = "construct" /\ ret.log[1].at = rhs_tmp
    /\ ret.log[Len(ret.log)].e = "delete" /\ ret.log[Len(ret.log)].at = rhs_tmp
    /\ has_value(World, ret.self) /\ ~has_value(World, ret.other)

\* C20: inplace_unique_any swap of two non-empty containers, this holding an
\* A and other a B: the steps are move this -> temp, destroy this, move
\* other -> this, destroy other, move temp -> other, destroy temp, exchange of
\* the vtable pointers, in this order; every move and destroy goes through the
\* vtable of the type of the object it acts on; no move constructs over a live
\* object; the temporary buffer holds no live object at the end.
C20_InplaceSwapSteps ==
    [][/\ variant = "inplace_unique_any"
       /\ ret'.op \in SwapForms /\ ret'.self # ret'.other
       /\ inplace_unique_any_has_value(World, ret'.self)
       /\ inplace_unique_any_has_value(World, ret'.other)
       =>
          LET this == ret'.self
              other == ret'.other
              A == buffer_[this].T
              B == buffer_[other].T
          IN /\ ret'.log = << Ev("move", A, tmp, this, A),
                              Ev("destroy", A, this, this, A),
                              Ev("move", B, this, other, B),
                              Ev("destroy", B, other, other, B),
                              Ev("move", A, other, tmp, A),
                              Ev("destroy", A, tmp, tmp, A),
                              Ev("exchange", "void", this, other, "none") >>
             /\ fault' = ""
             /\ ~IsLive(buffer_'[tmp]) /\ ~alive'[tmp]
             /\ buffer_'[this] = buffer_[other] /\ buffer_'[other] = buffer_[this]
             /\ vtable_'[this] = B /\ vtable_'[other] = A]_vars

\* C20 witness: two inplace_unique_any holding values of different types have
\* been swapped through the temporary buffer
C20_Witness ==
    /\ variant = "inplace_unique_any"
    /\ ret.op \in SwapForms /\ Len(ret.log) = 7
    /\ ret.log[7].e = "exchange"
    /\ ret.log[1].T # ret.log[3].T
    /\ vtable_[ret.self] = ret.log[3].T /\ vtable_[ret.other] = ret.log[1].T

\* the action::move / vtable move calls of one operation, in order, each as
\* <<source container, destination container>>. A small-buffer move is the
\* construction in the destination followed by the destruction of the source.
Relocations(log) ==
    LET puts == SelectSeq([i \in 1..Len(log) |-> i],
                          LAMBDA i : \/ log[i].e \in {"pointer", "move"}
                                     \/ /\ log[i].e = "construct" /\ i < Len(log)
                                        /\ log[i + 1].e = "destroy"
                                        /\ log[i + 1].at # log[i].at)
    IN [k \in 1..Len(puts) |->
          LET i == puts[k]
          IN <<IF log[i].e = "construct" THEN log[i + 1].at ELSE log[i].src, log[i].at>>]

\* a.swap(b) of unique_any has been called with a # b and both holding a value
HeapSwapOfTwo ==
    /\ variant = "unique_any"
    /\ ret'.op \in SwapForms /\ ret'.self # ret'.other
    /\ unique_any_has_value(World, ret'.self) /\ unique_any_has_value(World, ret'.other)

\* nothing is destroyed in the call but the moved-from object a small-buffer
\* move leaves behind, and the relay is empty and gone at the end
RelayDestroysNothing ==
    /\ \A i \in 1..Len(ret'.log) :
          /\ ret'.log[i].e \in {"construct", "destroy", "pointer"}
          /\ ret'.log[i].e = "destroy" =>
                i > 1 /\ ret'.log[i - 1].e = "construct" /\ ret'.log[i - 1].T = ret'.log[i].T
    /\ h_'[tmp] = NullH /\ ~IsLive(s_'[tmp].buf) /\ ~alive'[tmp]
    /\ n_allocs' = n_allocs
    /\ fault' = ""

\* C21 as stated: unique_any swap of two non-empty containers moves
\* this -> temp, other -> this, temp -> other, and the relay is empty when swap
\* returns, so that its destruction destroys nothing.
C21_RelayThisFirst ==
    [][HeapSwapOfTwo =>
          /\ Relocations(ret'.log) = << <<ret'.self, tmp>>, <<ret'.other, ret'.self>>,
                                        <<tmp, ret'.other>> >>
          /\ RelayDestroysNothing]_vars

\* C21 amended: the moves are other -> temp, this -> other, temp -> this; the
\* relay is empty when swap returns and its destruction destroys nothing.
C21_RelayOtherFirst ==
    [][HeapSwapOfTwo =>
          /\ Relocations(ret'.log) = << <<ret'.other, tmp>>, <<ret'.self, ret'.other>>,
                                        <<tmp, ret'.self>> >>
          /\ RelayDestroysNothing
          /\ content(World', ret'.self) = content(World, ret'.other)
          /\ content(World', ret'.other) = content(World, ret'.self)]_vars

\* C21 witness: a unique_any holding a small value has been swapped with one
\* holding a heap-stored value, through the relay
C21_Witness ==
    /\ variant = "unique_any"
    /\ ret.op = "swap" /\ ret.self # ret.other
    /\ Len(Relocations(ret.log)) = 3
    /\ Relocations(ret.log)[1] = <<ret.other, tmp>>
    /\ unique_any_has_value(World, ret.self) /\ unique_any_has_value(World, ret.other)
    /\ is_small_object_v(h_[ret.self]) /\ ~is_small_object_v(h_[ret.other])

\* handler<T>: where a value of type T is kept
KindFor(T) == IF is_small_object_v(T) THEN "inline" ELSE "pointer"

\* the member of the storage union that was written last, for a container
\* that holds a value
StorageKind(w, c) ==
    IF w.h_[c] = NullH THEN "none"
    ELSE IF w.s_[c].m = "buf" THEN "inline"
    ELSE "pointer"

\* C22: in unique_any a value of type T is kept inline iff sizeof(T) fits the
\* buffer of three pointers, its alignment divides the buffer's and T is
\* nothrow-move-constructible, else behind an owning pointer. In every state
\* reached by constructions, move constructions, move assignments and swaps
\* between containers of either kind, each container with a handler has the
\* union member of its handler's kind active and an object of the handler's
\* type there; no handler has acted on the other member; and every step of
\* every call (construct / destroy inline, new / delete / pointer hand-over)
\* is of the kind of its type, so that a value keeps its kind.
C22_StorageKindByType ==
    variant = "unique_any" =>
        /\ fault = ""
        /\ \A T \in types :
              KindFor(T) = "inline" <=>
                 /\ sizeof(T) <= 3 * sizeof_void_p
                 /\ sizeof_void_p % alignof(T) = 0
                 /\ is_nothrow_move_constructible_v(T)
        /\ \A c \in Slots :
              h_[c] # NullH =>
                 /\ StorageKind(World, c) = KindFor(h_[c])
                 /\ StorageKind(World, c) = "inline" => s_[c].buf.T = h_[c]
                 /\ StorageKind(World, c) = "pointer" =>
                       /\ s_[c].ptr \in Addr
                       /\ heap[s_[c].ptr].alloc /\ heap[s_[c].ptr].obj.T = h_[c]
        /\ \A i \in 1..Len(ret.log) :
              /\ ret.log[i].obj = ret.log[i].T
              /\ ret.log[i].e \in {"construct", "destroy"} => KindFor(ret.log[i].T) = "inline"
              /\ ret.log[i].e \in {"new", "delete", "pointer"} => KindFor(ret.log[i].T) = "pointer"

\* C22 witness: a container holding an inline value has been swapped with one
\* holding a std::atomic, which is behind a pointer although its size and
\* alignment would fit
C22_Witness ==
    /\ variant = "unique_any"
    /\ ret.op \in SwapForms /\ ret.self # ret.other
    /\ StorageKind(World, ret.self) = "inline"
    /\ h_[ret.other] = "atomic" /\ StorageKind(World, ret.other) = "pointer"
    /\ sizeof("atomic") <= small_buffer_size
    /\ Len(ret.log) = 5

\* a destructor has run on storage whose object was already destroyed
DestroyedTwice ==
    \E i \in 1..Len(ret.log) :
       ret.log[i].e \in {"destroy", "delete"} /\ ret.log[i].obj # ret.log[i].T

\* C23: the containers do not synchronise. When the two threads make their
\* calls on the same non-empty container under one lock held by the callers,
\* no interleaving destroys a value twice, uses a destroyed value or calls
\* through a null pointer, and once both containers are gone every value has
\* been destroyed and every allocation released. A value is destroyed twice
\* only without the lock and only when both threads have seen the handler /
\* vtable pointer non-null (the witness shows that this does happen).
C23_LockNeeded ==
    /\ locking => fault = "" /\ ~DestroyedTwice
    /\ (locking /\ pc["t1"].at = "joined") =>
          /\ \A a \in Addr : ~heap[a].alloc
          /\ n_allocs = 0
          /\ \A c \in Slots : ~IsLive(s_[c].buf) /\ ~IsLive(buffer_[c])
    /\ DestroyedTwice => ~locking /\ \A t \in Threads : pc[t].seen # NullH
    /\ mutex # "free" => locking /\ \A t \in Threads \ {mutex} : pc[t].at \in {"start", "done"}

\* C23 witness: without the lock both threads called reset(), both saw the
\* pointer non-null, and the second destroy found the object already destroyed
C23_Witness ==
    /\ ~locking
    /\ \A t \in Threads : pc[t].op = "reset" /\ pc[t].seen # NullH /\ pc[t].at = "done"
    /\ Len(ret.log) = 2
    /\ ret.log[1].obj = ret.log[1].T
    /\ ret.log[2].obj = "none"
    /\ DestroyedTwice

\* the last call was an emplace, or an assignment of a value to an
\* inplace_unique_any, and the construction of the new value failed
FailedInPlace ==
    /\ ret'.out = Threw
    /\ variant \in {"unique_any", "inplace_unique_any"}
    /\ ret'.op \in EmplaceForms \/ (ret'.op = "assign_value" /\ variant = "inplace_unique_any")

\* C24: when the construction of the new value fails in emplace (unique_any,
\* inplace_unique_any) or in operator=(U &&) of inplace_unique_any, the value
\* held before has been destroyed exactly once, before the attempt; the
\* container is empty (has_value() false, type() == typeid(void)) with no live
\* object in its storage; in unique_any what was allocated for the new value
\* has been given back, no allocation is added, and the one of the old value
\* is gone; the other containers are as before.
C24_FailedConstructionLeavesEmpty ==
    [][FailedInPlace =>
          LET c   == ret'.self
              log == ret'.log
              dead == SelectSeq(log, LAMBDA ev : ev.e \in {"destroy", "delete"})
          IN /\ ~has_value(World', c) /\ type(World', c) = "void"
             /\ ~IsLive(s_'[c].buf) /\ ~IsLive(buffer_'[c])
             /\ IF has_value(World, c)
                THEN /\ Len(dead) = 1 /\ dead[1] = log[1]
                     /\ log[1].at = c /\ log[1].obj = type(World, c) /\ log[1].T = type(World, c)
                ELSE Len(dead) = 0
             /\ n_allocs' = n_allocs - (IF IsHeapStored(World, c) THEN 1 ELSE 0)
             /\ \A a \in Addr : heap'[a].alloc => heap[a].alloc /\ heap'[a] = heap[a]
             /\ Len(SelectSeq(log, LAMBDA ev : ev.e = "allocate"))
                   = Len(SelectSeq(log, LAMBDA ev : ev.e = "deallocate"))
             /\ \A d \in Containers \ {c} :
                   /\ alive'[d] = alive[d] /\ h_'[d] = h_[d] /\ s_'[d] = s_[d]
                   /\ vtable_'[d] = vtable_[d] /\ buffer_'[d] = buffer_[d]
             /\ fault' = ""]_vars

\* C24 witness: emplace of a heap-stored type into a unique_any holding a
\* heap-stored value failed in the constructor: the old value was deleted,
\* the new allocation was made and given back
C24_Witness ==
    /\ variant = "unique_any"
    /\ ret.op = "emplace" /\ ret.out = Threw
    /\ Len(ret.log) = 4
    /\ ret.log[1].e = "delete" /\ ret.log[2].e = "allocate"
    /\ ret.log[3].e = "throw" /\ ret.log[4].e = "deallocate"
    /\ ~unique_any_has_value(World, ret.self)

\* C25: c = value on a unique_any (part_004, and the interface / model
\* implementation) builds the new value in a temporary before c is touched:
\* when the construction or its allocation fails, c holds what it held, with
\* the same type and in the same place, nothing has been destroyed, nothing
\* stays allocated for the failed value, and the temporary is gone.
C25_StrongGuarantee ==
    [][/\ ret'.out = Threw /\ ret'.op = "assign_value"
       /\ variant \in {"unique_any", "unique_any_model"}
       =>
          LET c == ret'.self
          IN /\ has_value(World', c) = has_value(World, c)
             /\ content(World', c) = content(World, c)
             /\ h_'[c] = h_[c] /\ s_'[c] = s_[c] /\ state_'[c] = state_[c]
             /\ heap' = heap /\ n_allocs' = n_allocs
             /\ \A i \in 1..Len(ret'.log) :
                   /\ ret'.log[i].e \in {"allocate", "throw", "deallocate"}
                   /\ ret'.log[i].at = rhs_tmp
             /\ ~alive'[rhs_tmp] /\ h_'[rhs_tmp] = NullH /\ state_'[rhs_tmp] = nullptr
             /\ alive' = alive
             /\ fault' = ""]_vars

\* C25 witness: assigning a heap-stored type to a unique_any that holds a
\* small value failed in the constructor, after the allocation
C25_Witness ==
    /\ variant = "unique_any"
    /\ ret.op = "assign_value" /\ ret.out = Threw /\ ret.T = "large"
    /\ Len(ret.log) = 3
    /\ unique_any_has_value(World, ret.self) /\ h_[ret.self] = "small"
    /\ IsLive(s_[ret.self].buf)

\* C26: a = move(a). A non-empty a holds afterwards a value equal to the one
\* it held, of the same type; no value that is still held is destroyed (the
\* only destructions are those of the moved-from objects that the relay
\* through the temporary of unique_any leaves behind), nothing is allocated
\* or freed, and a heap-stored value stays where it is. An empty a stays
\* empty and nothing happens at all. inplace_unique_any does nothing in
\* either case; unique_any moves the value to the temporary and back.
C26_SelfMoveAssign ==
    [][ret'.op = "assign_move" /\ ret'.self = ret'.other =>
          LET a   == ret'.self
              log == ret'.log
          IN /\ has_value(World', a) = has_value(World, a)
             /\ content(World', a) = content(World, a)
             /\ held(World', a) = held(World, a)
             /\ heap' = heap /\ n_allocs' = n_allocs
             /\ IsHeapStored(World, a) => s_'[a].ptr = s_[a].ptr /\ IsHeapStored(World', a)
             /\ \A i \in 1..Len(log) :
                   /\ log[i].e \in {"construct", "destroy", "pointer"}
                   /\ log[i].e = "destroy" =>
                         /\ i > 1 /\ log[i - 1].e = "construct" /\ log[i - 1].at # log[i].at
                         /\ i = Len(log) => log[i].at = rhs_tmp
             /\ variant = "inplace_unique_any" =>
                   log = <<>> /\ UNCHANGED <<vtable_, buffer_, alive>>
             /\ ~has_value(World, a) =>
                   log = <<>> /\ UNCHANGED <<h_, vtable_, buffer_, alive>>
             /\ \A d \in Containers \ {a} :
                   h_'[d] = h_[d] /\ s_'[d] = s_[d] /\ vtable_'[d] = vtable_[d]
                   /\ buffer_'[d] = buffer_[d]
             /\ ~alive'[rhs_tmp] /\ ~alive'[tmp]
             /\ fault' = ""]_vars

\* C26 witness: a unique_any holding an inline value was move-assigned to
\* itself: the value went to the temporary and came back
C26_Witness ==
    /\ variant = "unique_any"
    /\ ret.op = "assign_move" /\ ret.self = ret.other
    /\ Len(ret.log) = 4
    /\ ret.log[1].at = rhs_tmp /\ ret.log[3].at = ret.self
    /\ unique_any_has_value(World, ret.self)
    /\ IsLive(s_[ret.self].buf)

\* C27: on an empty container the pointer casts do not call through the null
\* handler / vtable pointer and give null for every requested type, void
\* included; the reference and value casts throw bad_any_cast for every
\* requested type.
C27_CastsOnEmpty ==
    (ret.self \in Containers /\ ~has_value(World, ret.self)) =>
        /\ ret.op \in PtrCastForms => ret.out = Out("ptr", NullPtr, 0)
        /\ ret.op \in AllRefCasts => ret.out \in {Thrown, IllFormed}
        /\ ret.op \in AllRefCasts /\ ret.out = IllFormed => ~is_move_constructible_v(ret.T)

\* C28: the casts do not change the container. After a pointer cast, an
\* lvalue or const lvalue reference cast, successful or not, and after an
\* rvalue cast that failed, every container has the same has_value(), type()
\* and held value as before and nothing else of the program state has
\* changed; the call returned a pointer or a value or threw bad_any_cast, and
\* the same cast made again gives the same result.
C28_CastsChangeNothing ==
    [][(\/ ret'.op \in PtrCastForms \cup RefCastForms
        \/ ret'.op = "cast_rvalue" /\ ret'.out \notin {IllFormed} /\ ret'.out.k # "value")
       =>
          /\ UNCHANGED <<alive, h_, s_, heap, n_allocs, vtable_, buffer_, state_, fault>>
          /\ \A c \in Containers :
                alive[c] => /\ has_value(World', c) = has_value(World, c)
                            /\ content(World', c) = content(World, c)
          /\ ret'.log = <<>>
          /\ ret'.out.k \in {"ptr", "value", "bad_any_cast"}
          /\ ret'.op \in PtrCastForms => ptr_results(World', ret'.self, ret'.T) = {ret'.out}
          /\ ret'.op \notin PtrCastForms => ref_results(World', ret'.self, ret'.T) = {ret'.out}]_vars

\* the operations that relocate a held value
RelocatingOps == {"ctor_move", "assign_move", "swap", "free_swap"}

\* C29: in move construction, move assignment and swap of either class, every
\* relocation (construct in the destination buffer from the source, hand-over
\* of the pointer, vtable move) goes into a slot that holds no value at that
\* moment: the slot was empty or fresh when the call began and nothing was
\* put into it since, or what it held was destroyed or handed over after the
\* last put. No relocation writes over a live object. After a relocation of
\* an inline object the next step is the destruction of what is left in the
\* source slot, before anything else is done with that slot.
C29_RelocationsIntoVacantSlots ==
    [][ret'.op \in RelocatingOps =>
          LET log == ret'.log
              Put(i, x) == log[i].e \in {"construct", "move", "pointer"} /\ log[i].at = x
              Leaves(i, x) == \/ log[i].e \in {"destroy", "delete"} /\ log[i].at = x
                              \/ log[i].e = "pointer" /\ log[i].src = x
              Held(x) == IF variant = "unique_any" THEN h_[x] # NullH ELSE vtable_[x] # NullH
              Vacant(i, x) ==
                 LET puts == {j \in 1..(i - 1) : Put(j, x)}
                     outs == {j \in 1..(i - 1) : Leaves(j, x)}
                 IN IF puts = {} THEN ~Held(x) \/ outs # {}
                    ELSE \E k \in outs : \A j \in puts : j < k
          IN /\ fault' = ""
             /\ \A i \in 1..Len(log) :
                   /\ \A x \in Slots : Put(i, x) => Vacant(i, x)
                   /\ log[i].e \in {"construct", "move"} =>
                         /\ i < Len(log)
                         /\ log[i + 1].e = "destroy" /\ log[i + 1].at # log[i].at
                         /\ log[i + 1].T = log[i].T /\ log[i + 1].obj = log[i].T
                         /\ log[i].e = "move" => log[i + 1].at = log[i].src
                   /\ log[i].e = "pointer" => log[i].src # log[i].at
             /\ ~alive'[tmp] /\ ~alive'[rhs_tmp]
             /\ \A x \in {tmp, rhs_tmp} :
                   h_'[x] = NullH /\ vtable_'[x] = NullH
                   /\ ~IsLive(s_'[x].buf) /\ ~IsLive(buffer_'[x])]_vars

\* C29 witness: two non-empty unique_any were swapped, or one move-assigned
\* over the other, in at least three relocations
C29_Witness ==
    /\ ret.op \in {"swap", "assign_move"} /\ ret.self # ret.other
    /\ Len(Relocations(ret.log)) >= 3
    /\ \E i \in 1..Len(ret.log) : ret.log[i].e = "pointer"
    /\ \E i \in 1..Len(ret.log) : ret.log[i].e = "construct"

====
